---------------------------- MODULE Spec2Model ----------------------------
(***************************************************************************)
(* A model of repowire: the in-process MessageBus (bus.py), the            *)
(* HappyTransport connection and pending-response handling                 *)
(* (transport/happy.py) and the mesh coordinator's ask_peer / broadcast    *)
(* (mesh/server.py, mesh/peers.py).                                        *)
(*                                                                         *)
(* asyncio is modelled at the level of its documented contract: a          *)
(* coroutine runs atomically between two suspension points; a Future is    *)
(* pending, holds a result, or is cancelled; set_result on a Future that   *)
(* is not pending raises InvalidStateError; wait_for's timeout cancels the *)
(* awaited Future and the waiting coroutine resumes in a LATER step of the *)
(* event loop (so its finally block runs later than the cancellation).     *)
(***************************************************************************)
EXTENDS Integers, Sequences, FiniteSets, TLC

\* ------------------------------------------------------------------ bounds
\* number of MessageBus.query() calls made
MaxQueries == 2
\* number of messages the bus accepts (the length _message_log reaches)
MaxLog == 3

\* ------------------------------------------------------------- MessageBus
\* the agent names that register a handler
Agents == {"a", "b"}
\* a name that sends but never registers a handler
Outsider == "x"
\* the payloads a Response carries
Contents == {"p1", "p2"}
Calls == 1..MaxQueries
\* correlation_id None
NoCid == 0
\* a correlation id no query of this bus carries
UnknownCid == MaxQueries + 1

VARIABLES
    handlers,          \* MessageBus._handlers: the agent names with a handler, in insertion order
    pendingResponses,  \* MessageBus._pending_responses: correlation id -> Future (named by its call)
    logLen,            \* len(MessageBus._message_log); no operation modelled here reads its contents
    sent,              \* the message of the latest send()
    sendOutcome,       \* how the latest send() ended: "ok" or "InvalidStateError"
    spawned,           \* the agents whose handler the latest send() scheduled (create_task), in order
    qtask,             \* per query() call: its handler task, "none", "created" or "responded"
    qpc,               \* per query() call: "idle", "waiting", "done"
    qmsg,              \* per query() call: the message it was given
    fut,               \* per query() call: its Future, [state, value]
    qres               \* per query() call: how it ended, [kind, value]

busVars == <<handlers, pendingResponses, logLen, sent, sendOutcome, spawned, qtask,
             qpc, qmsg, fut, qres>>

\* HappyTransport (transport/happy.py)
VARIABLES
    hconnected,        \* HappyTransport._connected
    hconnecting,       \* HappyTransport._connecting
    sockUp,            \* the socket.io client holds an established connection
    hreconnect,        \* the client reconnects on its own (reconnection=True, after a first connection)
    sioInflight,       \* the calls whose "await self.sio.connect(...)" has not returned
    hpend,             \* HappyTransport._pending_responses: the query ids, in insertion order
    hfut,              \* per send_message call: its response Future's state
    hpc,               \* per send_message call: where it is
    hpolls,            \* per send_message call: polls done in connect()'s current loop
    hres,              \* per send_message call: how it ended
    hclosed            \* HappyTransport.close() has run

happyVars == <<hconnected, hconnecting, sockUp, hreconnect, sioInflight, hpend, hfut,
               hpc, hpolls, hres, hclosed>>

\* the mesh coordinator (mesh/server.py, mesh/peers.py)
VARIABLES
    peers,             \* PeerRegistry._peers: [name, agent_type] in insertion order
    happyCreds,        \* load_credentials() finds Happy credentials
    happyTransport,    \* _happy_transport is not None
    opencodeTransport, \* _opencode_transport is not None
    apc,               \* the latest ask_peer call: "idle", "dispatched", "done"
    acaller,           \* its caller
    atarget,           \* its target
    asel,              \* the transport get_transport_for_peer returned to it, or "none"
    acalled,           \* it has called transport.send_message
    araised,           \* the exception its try block met: [exc, origin]
    aresult,           \* the map it returned: [success, kind]
    bpc,               \* the latest broadcast call: "idle", "sending", "done"
    bcaller,           \* its caller
    bsnap,             \* the list registry.list_all() gave it
    bidx,              \* the position in that list of the peer being served
    notified,          \* its list notified
    errors,            \* its list errors (the peer names)
    attempts,          \* the peers for which it has entered the try block, in order
    bresult            \* the map it returned: [returned, success]

askVars == <<apc, acaller, atarget, asel, acalled, araised, aresult>>
broadcastVars == <<bpc, bcaller, bsnap, bidx, notified, errors, attempts, bresult>>
meshVars == <<peers, happyCreds, happyTransport, opencodeTransport, askVars, broadcastVars>>

\* HappyEncryption (transport/happy_encryption.py)
VARIABLES
    sessionEncryptions, \* HappyEncryption._session_encryptions: session id -> [scheme, key, instance]
    instances,          \* the SessionEncryption objects created so far
    fetched             \* the "sessions" list of the latest _fetch_sessions, <<>> after a direct call

encVars == <<sessionEncryptions, instances, fetched>>

\* the encryption schemes as functions (transport/happy_encryption.py)
VARIABLES
    cop,               \* the operation applied last
    cplain,            \* the items, or the key, that were encrypted
    cwire,             \* what was handed to the decryption: byte strings, or base64 text
    cresult            \* what the decryption returned, item by item

cipherVars == <<cop, cplain, cwire, cresult>>

\* derive_key (transport/happy_encryption.py)
VARIABLES
    dIn,               \* the two argument lists derive_key was given: [master, usage, path]
    dOut               \* the two keys it returned

deriveVars == <<dIn, dOut>>

\* PeerRegistry (mesh/peers.py), called method by method
VARIABLES
    regOp,             \* the last call on the registry: method, arguments, return value
    regLast            \* per name, the peer last registered and not unregistered since

registryVars == <<regOp, regLast>>

\* the message factories (bus.py, protocol/messages.py)
VARIABLES
    uuids,             \* how many values uuid4() has returned
    busBuilt,          \* what the factories of bus.Message returned, with their arguments
    protoBuilt         \* what the create methods of protocol.messages returned, with their arguments

factoryVars == <<uuids, busBuilt, protoBuilt>>

\* the relay server (relay/server.py)
VARIABLES
    sioSessions,       \* sid -> the user_id saved by connect, "none" before it, "closed" after disconnect
    relayPeers,        \* peers: sid -> PeerInfo (peer name, user_id)
    user_peers,        \* user_peers: user_id -> peer name -> sid
    pending_responses, \* pending_responses: correlation_id -> sid
    relayLast,         \* the last event handled: its arguments, its return value, what it emitted
    recorded,          \* the message events that wrote pending_responses: [sid, correlation_id], in order
    pendingRec,        \* correlation_id -> the place in recorded of the entry now in pending_responses
    forwards           \* the response events emitted: [correlation_id, to, rec], in order

relayVars == <<sioSessions, relayPeers, user_peers, pending_responses, relayLast,
               recorded, pendingRec, forwards>>

\* the api keys of the relay (relay/auth.py)
VARIABLES
    keyStore,          \* data["keys"] of api_keys.json: key -> the dumped APIKey
    authClock,         \* the calls made so far; stands for datetime.utcnow()
    authLast,          \* the last call: function, key, what it returned
    generatedFor,      \* key -> the user_id generate_api_key produced it for
    revokedKeys        \* the keys revoke_api_key removed

authVars == <<keyStore, authClock, authLast, generatedFor, revokedKeys>>

\* extract_last_assistant_response (session/transcript.py, hooks/stop_handler.py)
VARIABLES
    tIn,               \* the transcript the two functions were given (exists, lines), once called
    tOut               \* what each of them did: [session, hook]

transcriptVars == <<tIn, tOut>>

\* SharedState (mesh/state.py)
VARIABLES
    sData,             \* SharedState._data: key -> value
    sFile,             \* the file at _persist_path: exists, intact, the JSON object in it
    sLast,             \* the last operation: name, key, return value, whether it raised
    sExpected,         \* the map obtained by applying the completed operations in order
    sRaised            \* some operation raised

stateVars == <<sData, sFile, sLast, sExpected, sRaised>>

\* TmuxSessionManager (session/manager.py)
VARIABLES
    trunning,          \* _running: the socket server is listening
    tpend,             \* _pending_futures: correlation_id -> the send_query call owning the Future
    tfut,              \* per call, its response Future
    tpc,               \* per call, where send_query stands: idle, waiting, done
    tres,              \* per call, what send_query returned or raised
    tfile,             \* per call, the name of its pending file
    typed,             \* the correlation ids whose query was typed into a pane
    tfiles,            \* pending_dir: file name -> the correlation_id written in it
    tlast              \* the last connection _socket_handler served

tmuxVars == <<trunning, tpend, tfut, tpc, tres, tfile, typed, tfiles, tlast>>

\* HappyTransport: the session cache and the update tasks (transport/happy.py)
VARIABLES
    ucache,            \* the session ids that have a SessionEncryption
    upend,             \* _pending_responses: the calls that own an entry, in insertion order
    ufut,              \* per call, its response Future
    upc,               \* per call, where it stands: idle, fetching, emitting, waiting, done
    ucall,             \* per call: kind, session id, and whether it fetched, encrypted, emitted
    ures,              \* per call, what it returned or raised
    uh,                \* per update task: where it stands, its update, its snapshot of the map
    uout               \* per update task: returned or raised, and the calls it fulfilled

updateVars == <<ucache, upend, ufut, upc, ucall, ures, uh, uout>>

\* the client daemon (client/daemon.py)
VARIABLES
    dlink,             \* the daemon's socket.io client is connected to the relay
    dstopped,          \* RepowireDaemon.stop has run
    dpc,               \* per relayed message: idle, querying, notifying, done
    dmsg,              \* per relayed message being handled, its fields
    dout,              \* per relayed message, the response events the daemon emitted
    dres               \* per relayed message, how _handle_relay_message ended

daemonVars == <<dlink, dstopped, dpc, dmsg, dout, dres>>

nonBusVars == <<happyVars, meshVars, encVars, cipherVars, deriveVars, registryVars,
                factoryVars, relayVars, authVars, transcriptVars, stateVars, tmuxVars,
                updateVars, daemonVars>>
nonHappyVars == <<busVars, meshVars, encVars, cipherVars, deriveVars, registryVars,
                  factoryVars, relayVars, authVars, transcriptVars, stateVars, tmuxVars,
                  updateVars, daemonVars>>
nonMeshVars == <<busVars, happyVars, encVars, cipherVars, deriveVars, registryVars,
                 factoryVars, relayVars, authVars, transcriptVars, stateVars, tmuxVars,
                 updateVars, daemonVars>>
nonEncVars == <<busVars, happyVars, meshVars, cipherVars, deriveVars, registryVars,
                factoryVars, relayVars, authVars, transcriptVars, stateVars, tmuxVars,
                updateVars, daemonVars>>
nonCipherVars == <<busVars, happyVars, meshVars, encVars, deriveVars, registryVars,
                   factoryVars, relayVars, authVars, transcriptVars, stateVars, tmuxVars,
                   updateVars, daemonVars>>
nonDeriveVars == <<busVars, happyVars, meshVars, encVars, cipherVars, registryVars,
                   factoryVars, relayVars, authVars, transcriptVars, stateVars, tmuxVars,
                   updateVars, daemonVars>>
nonPeerVars == <<busVars, happyVars, encVars, cipherVars, deriveVars, factoryVars, relayVars,
                 authVars, transcriptVars, stateVars, tmuxVars, updateVars, daemonVars>>
nonFactoryVars == <<busVars, happyVars, meshVars, encVars, cipherVars, deriveVars,
                    registryVars, relayVars, authVars, transcriptVars, stateVars, tmuxVars,
                    updateVars, daemonVars>>
nonRelayVars == <<busVars, happyVars, meshVars, encVars, cipherVars, deriveVars, registryVars,
                  factoryVars, authVars, transcriptVars, stateVars, tmuxVars, updateVars,
                  daemonVars>>
nonAuthVars == <<busVars, happyVars, meshVars, encVars, cipherVars, deriveVars, registryVars,
                 factoryVars, relayVars, transcriptVars, stateVars, tmuxVars, updateVars,
                 daemonVars>>
nonTranscriptVars == <<busVars, happyVars, meshVars, encVars, cipherVars, deriveVars,
                       registryVars, factoryVars, relayVars, authVars, stateVars, tmuxVars,
                       updateVars, daemonVars>>
nonStateVars == <<busVars, happyVars, meshVars, encVars, cipherVars, deriveVars, registryVars,
                  factoryVars, relayVars, authVars, transcriptVars, tmuxVars, updateVars,
                  daemonVars>>
nonTmuxVars == <<busVars, happyVars, meshVars, encVars, cipherVars, deriveVars, registryVars,
                 factoryVars, relayVars, authVars, transcriptVars, stateVars, updateVars,
                 daemonVars>>
nonUpdateVars == <<busVars, happyVars, meshVars, encVars, cipherVars, deriveVars,
                   registryVars, factoryVars, relayVars, authVars, transcriptVars, stateVars,
                   tmuxVars, daemonVars>>
nonDaemonVars == <<busVars, happyVars, meshVars, encVars, cipherVars, deriveVars,
                   registryVars, factoryVars, relayVars, authVars, transcriptVars, stateVars,
                   tmuxVars, updateVars>>

vars == <<busVars, happyVars, meshVars, encVars, cipherVars, deriveVars, registryVars,
          factoryVars, relayVars, authVars, transcriptVars, stateVars, tmuxVars, updateVars,
          daemonVars>>

NoMsg == [id |-> 0, type |-> "none", source |-> "none", target |-> "none",
          content |-> "none", correlation_id |-> NoCid]
PendingFuture == [state |-> "pending", value |-> "none"]
NoResult == [kind |-> "none", value |-> "none"]

\* uuid4 of a message not built by Message.query: distinct from every query
\* id (1..MaxQueries) and from the id of every other message sent
FreshId == 0 - (logLen + 1)

\* Message.query: correlation_id = id = a fresh uuid (the call's number)
QueryMessage(q, src, tgt) ==
    [id |-> q, type |-> "QUERY", source |-> src, target |-> tgt,
     content |-> "none", correlation_id |-> q]

\* Message.response
ResponseMessage(src, tgt, c, cid) ==
    [id |-> FreshId, type |-> "RESPONSE", source |-> src, target |-> tgt,
     content |-> c, correlation_id |-> cid]

\* Message.notification
NotificationMessage(src, tgt) ==
    [id |-> FreshId, type |-> "NOTIFICATION", source |-> src, target |-> tgt,
     content |-> "none", correlation_id |-> NoCid]

\* Message.broadcast
BroadcastMessage(src) ==
    [id |-> FreshId, type |-> "BROADCAST", source |-> src, target |-> "none",
     content |-> "none", correlation_id |-> NoCid]

\* message.correlation_id or message.id
PendingKey(m) == IF m.correlation_id # NoCid THEN m.correlation_id ELSE m.id

\* message.correlation_id and message.correlation_id in self._pending_responses
ResponseMatches(m, pend) == m.correlation_id # NoCid /\ m.correlation_id \in DOMAIN pend

\* a bus that hands a RESPONSE to the oldest pending entry, whatever its id
ResponseSlotOldest(m, pend) == pend[CHOOSE c \in DOMAIN pend : \A d \in DOMAIN pend : c <= d]

\* self._pending_responses[message.correlation_id]: the Future a RESPONSE is handed to
ResponseSlot(m, pend) == pend[m.correlation_id]

\* a bus that leaves out the test on message.source
BroadcastToAll(m, hs) == hs

\* for agent_name, handler in self._handlers.items(): if agent_name != message.source
\* (a dict iterates in insertion order: hs is the sequence of registered names)
BroadcastRecipients(m, hs) == SelectSeq(hs, LAMBDA a : a # m.source)

\* if message.target and message.target in self._handlers
DirectRecipients(m, hs) ==
    IF m.target # "none" /\ m.target \in {hs[i] : i \in 1..Len(hs)} THEN <<m.target>> ELSE <<>>

\* dict.pop(key, None)
Pop(pend, k) == [c \in (DOMAIN pend) \ {k} |-> pend[c]]

Range(s) == {s[i] : i \in 1..Len(s)}

BusInit ==
    /\ handlers = <<>>
    /\ pendingResponses = <<>>
    /\ logLen = 0
    /\ sent = NoMsg
    /\ sendOutcome = "ok"
    /\ spawned = <<>>
    /\ qtask = [q \in Calls |-> "none"]
    /\ qpc = [q \in Calls |-> "idle"]
    /\ qmsg = [q \in Calls |-> NoMsg]
    /\ fut = [q \in Calls |-> PendingFuture]
    /\ qres = [q \in Calls |-> NoResult]

\* MessageBus.register_handler: self._handlers[agent_name] = handler
register_handler(a) ==
    /\ handlers' = IF a \in Range(handlers) THEN handlers ELSE Append(handlers, a)
    /\ UNCHANGED <<pendingResponses, logLen, sent, sendOutcome, spawned, qtask,
                   qpc, qmsg, fut, qres>>
    /\ UNCHANGED nonBusVars

\* MessageBus.unregister_handler: self._handlers.pop(agent_name, None)
unregister_handler(a) ==
    /\ a \in Range(handlers)
    /\ handlers' = SelectSeq(handlers, LAMBDA x : x # a)
    /\ UNCHANGED <<pendingResponses, logLen, sent, sendOutcome, spawned, qtask,
                   qpc, qmsg, fut, qres>>
    /\ UNCHANGED nonBusVars

\* Future.set_result(message), on a pending Future
SetResult(f, m) == [state |-> "result", value |-> m.content]

\* MessageBus.send(m), run with the pending map pend and the futures futs:
\* the log append, then the branch of the message type.  The lock is never
\* held across a suspension point, so send runs without interruption.
\* set_result on a Future that is not pending raises InvalidStateError.
Send(m, pend, futs) ==
    /\ logLen' = logLen + 1
    /\ sent' = m
    /\ IF m.type = "RESPONSE"
       THEN /\ spawned' = <<>>
            /\ IF ResponseMatches(m, pend)
               THEN IF futs[ResponseSlot(m, pend)].state = "pending"
                    THEN /\ fut' = [futs EXCEPT ![ResponseSlot(m, pend)] = SetResult(@, m)]
                         /\ sendOutcome' = "ok"
                    ELSE /\ fut' = futs
                         /\ sendOutcome' = "InvalidStateError"
               ELSE /\ fut' = futs
                    /\ sendOutcome' = "ok"
       ELSE /\ fut' = futs
            /\ sendOutcome' = "ok"
            /\ IF m.type = "BROADCAST"
               THEN spawned' = BroadcastRecipients(m, handlers)
               ELSE spawned' = DirectRecipients(m, handlers)

\* MessageBus.query up to its suspension in wait_for: the Future is created
\* and stored under the message's key, the message is sent, the caller
\* waits.  Calls are numbered in the order they are made; send() does not
\* read the source of a QUERY, which is "a" here.
QueryStart(q, tgt) ==
    /\ qpc[q] = "idle"
    /\ \A p \in Calls : p < q => qpc[p] # "idle"
    /\ logLen < MaxLog
    /\ LET m == QueryMessage(q, "a", tgt) IN
       /\ qmsg' = [qmsg EXCEPT ![q] = m]
       /\ pendingResponses' = (PendingKey(m) :> q) @@ pendingResponses
       /\ Send(m, pendingResponses', [fut EXCEPT ![q] = PendingFuture])
    /\ qtask' = [qtask EXCEPT ![q] = IF spawned' = <<>> THEN "none" ELSE "created"]
    /\ qpc' = [qpc EXCEPT ![q] = "waiting"]
    /\ UNCHANGED <<handlers, qres>>
    /\ UNCHANGED nonBusVars

\* MessageBus.query given a message that is not a QUERY: ValueError, nothing stored
QueryNotAQuery(q) ==
    /\ qpc[q] = "idle"
    /\ \A p \in Calls : p < q => qpc[p] # "idle"
    /\ qmsg' = [qmsg EXCEPT ![q] = NotificationMessage("a", "b")]
    /\ qpc' = [qpc EXCEPT ![q] = "done"]
    /\ qres' = [qres EXCEPT ![q] = [kind |-> "ValueError", value |-> "none"]]
    /\ UNCHANGED <<handlers, pendingResponses, logLen, sent, sendOutcome, spawned, qtask, fut>>
    /\ UNCHANGED nonBusVars

\* asyncio.wait_for: the timeout expires while the Future is pending; the
\* Future is cancelled, the waiting coroutine is resumed later (QueryEnd).
QueryTimeout(q) ==
    /\ qpc[q] = "waiting"
    /\ fut[q].state = "pending"
    /\ fut' = [fut EXCEPT ![q] = [state |-> "cancelled", value |-> "none"]]
    /\ UNCHANGED <<handlers, pendingResponses, logLen, sent, sendOutcome, spawned, qtask,
                   qpc, qmsg, qres>>
    /\ UNCHANGED nonBusVars

\* a query() without its finally block
QueryFinallyKeeps(pend, m) == pend

\* a query() whose finally block empties the whole map
QueryFinallyClears(pend, m) == <<>>

\* finally: self._pending_responses.pop(message.correlation_id or message.id, None)
QueryFinally(pend, m) == Pop(pend, PendingKey(m))

\* MessageBus.query resumes: it returns the Future's result or raises
\* TimeoutError, and its finally block pops the entry.
QueryEnd(q) ==
    /\ qpc[q] = "waiting"
    /\ fut[q].state # "pending"
    /\ qres' = [qres EXCEPT ![q] =
                  IF fut[q].state = "result"
                  THEN [kind |-> "response", value |-> fut[q].value]
                  ELSE [kind |-> "timeout", value |-> "none"]]
    /\ pendingResponses' = QueryFinally(pendingResponses, qmsg[q])
    /\ qpc' = [qpc EXCEPT ![q] = "done"]
    /\ UNCHANGED <<handlers, logLen, sent, sendOutcome, spawned, qtask, qmsg, fut>>
    /\ UNCHANGED nonBusVars

\* the correlation ids a sender can know: None, those of the queries issued
\* so far, and one that belongs to no query
KnownCids == {NoCid, UnknownCid} \cup {q \in Calls : qmsg[q].type = "QUERY"}

\* bus.send(Message.response(...)) by any holder of the bus; send() reads
\* only the type and the correlation id of a RESPONSE
SendResponse(c, cid) ==
    /\ logLen < MaxLog
    /\ cid \in KnownCids
    /\ Send(ResponseMessage("b", "a", c, cid), pendingResponses, fut)
    /\ UNCHANGED <<handlers, pendingResponses, qtask, qpc, qmsg, qres>>
    /\ UNCHANGED nonBusVars

\* notify_peer: bus.send(Message.notification(...))
SendNotification(tgt) ==
    /\ logLen < MaxLog
    /\ Send(NotificationMessage("a", tgt), pendingResponses, fut)
    /\ UNCHANGED <<handlers, pendingResponses, qtask, qpc, qmsg, qres>>
    /\ UNCHANGED nonBusVars

\* broadcast_update: bus.send(Message.broadcast(...))
SendBroadcast(src) ==
    /\ logLen < MaxLog
    /\ Send(BroadcastMessage(src), pendingResponses, fut)
    /\ UNCHANGED <<handlers, pendingResponses, qtask, qpc, qmsg, qres>>
    /\ UNCHANGED nonBusVars

\* the Response the daemon's handler builds for a QUERY
HandlerResponse(agent, m, c) == ResponseMessage(agent, m.source, c, PendingKey(m))

\* RepowireDaemon handler for the QUERY of call q: chat with the agent, then
\* send the Response carrying the query's correlation id.  (A handler that
\* ends without using the bus - no client, a NOTIFICATION or BROADCAST
\* prompt, a chat call that raised - changes nothing here.)
HandlerRespond(q, c) ==
    /\ qtask[q] = "created"
    /\ logLen < MaxLog
    /\ Send(HandlerResponse(qmsg[q].target, qmsg[q], c), pendingResponses, fut)
    /\ qtask' = [qtask EXCEPT ![q] = "responded"]
    /\ UNCHANGED <<handlers, pendingResponses, qpc, qmsg, qres>>
    /\ UNCHANGED nonBusVars

BusNext ==
    \/ \E a \in Agents : register_handler(a)
    \/ \E a \in Agents : unregister_handler(a)
    \/ \E q \in Calls, tgt \in Agents : QueryStart(q, tgt)
    \/ \E q \in Calls : QueryNotAQuery(q)
    \/ \E q \in Calls : QueryTimeout(q)
    \/ \E q \in Calls : QueryEnd(q)
    \/ \E c \in Contents, cid \in 0..UnknownCid : SendResponse(c, cid)
    \/ \E tgt \in Agents : SendNotification(tgt)
    \/ \E src \in Agents \cup {Outsider} : SendBroadcast(src)
    \/ \E q \in Calls, c \in Contents : HandlerRespond(q, c)


\* ------------------------------------------------- MessageBus: the claims

\* the step is a send() of a RESPONSE carrying the correlation id of call q
RespondsTo(q) ==
    /\ logLen' = logLen + 1
    /\ sent'.type = "RESPONSE"
    /\ qmsg[q].type = "QUERY"
    /\ sent'.correlation_id = PendingKey(qmsg[q])

\* C1: while query() call q waits, two RESPONSEs with its correlation id
\* resolve it exactly once, with the first one: the first sets the Future,
\* the Future is never set again, the caller returns the first payload, and
\* the send() of the second one does not raise, whether it runs before or
\* after the caller has resumed.
C1_TwoResponsesResolveOnce ==
    [][\A q \in Calls :
        /\ (qpc[q] = "waiting" /\ fut[q].state = "pending" /\ RespondsTo(q))
              => fut'[q] = [state |-> "result", value |-> sent'.content]
        /\ (fut[q].state = "result") => fut'[q] = fut[q]
        /\ (fut[q].state = "result" /\ RespondsTo(q)) => sendOutcome' = "ok"
        /\ (fut[q].state = "result" /\ qpc[q] = "waiting" /\ qpc'[q] = "done")
              => qres'[q] = [kind |-> "response", value |-> fut[q].value]
      ]_vars

\* C2: a query() whose timeout expired (no matching RESPONSE came before the
\* deadline) ends with the timeout error and, once ended, has no entry in the
\* pending map; a matching RESPONSE sent after that is dropped: its send()
\* does not raise, no caller's state or result changes and the pending map
\* is left as it was.
C2_TimeoutRemovesEntry ==
    [][\A q \in Calls :
        /\ (qpc'[q] = "done" /\ fut'[q].state = "cancelled")
              => /\ qres'[q].kind = "timeout"
                 /\ PendingKey(qmsg'[q]) \notin DOMAIN pendingResponses'
        /\ (qpc[q] = "done" /\ qres[q].kind = "timeout" /\ RespondsTo(q))
              => /\ sendOutcome' = "ok"
                 /\ pendingResponses' = pendingResponses
                 /\ fut' = fut
                 /\ qpc' = qpc
                 /\ qres' = qres
      ]_vars

\* a query() has ended in a timeout and a RESPONSE with its id was sent later
C2_Witness ==
    \E q \in Calls :
        /\ qpc[q] = "done"
        /\ qres[q].kind = "timeout"
        /\ sent.type = "RESPONSE"
        /\ sent.correlation_id = PendingKey(qmsg[q])
        /\ sendOutcome = "ok"

\* C3: a Future is resolved only by the send() of a RESPONSE whose
\* correlation id is that of the Future's own query, and with that
\* RESPONSE's payload; a matching RESPONSE sent while the Future is pending
\* (before the deadline) resolves it; the caller returns what its own Future
\* holds.  The order in which the responses arrive plays no part.
C3_MatchedByCorrelationId ==
    [][\A q \in Calls :
        /\ (fut[q].state # "result" /\ fut'[q].state = "result")
              => /\ RespondsTo(q)
                 /\ fut'[q].value = sent'.content
        /\ (qpc[q] = "waiting" /\ fut[q].state = "pending" /\ RespondsTo(q))
              => fut'[q].state = "result"
        /\ (qpc'[q] = "done" /\ qres'[q].kind = "response")
              => /\ fut'[q].state = "result"
                 /\ qres'[q].value = fut'[q].value
        /\ (qpc[q] = "waiting" /\ qpc'[q] = "done" /\ fut[q].state = "result")
              => qres'[q].kind = "response"
      ]_vars

\* two queries are outstanding and the later one is answered first
C3_Witness ==
    /\ qpc[1] = "waiting"
    /\ fut[1].state = "pending"
    /\ qpc[2] = "done"
    /\ qres[2].kind = "response"

\* the query() calls that are inside the call, between the line that stores
\* the Future and the finally block
Waiting == {q \in Calls : qpc[q] = "waiting"}

\* C24: at every moment the pending map holds, for each query() call that is
\* waiting, one entry under that call's key leading to that call's Future,
\* different calls having different keys, and it holds nothing else: no
\* entry of a call that has finished and no entry of a call never made.
C24_PendingIsTheWaitingCalls ==
    /\ \A q \in Waiting :
          /\ PendingKey(qmsg[q]) \in DOMAIN pendingResponses
          /\ pendingResponses[PendingKey(qmsg[q])] = q
    /\ \A k \in DOMAIN pendingResponses :
          /\ pendingResponses[k] \in Waiting
          /\ PendingKey(qmsg[pendingResponses[k]]) = k
    /\ \A q \in Calls \ Waiting : PendingKey(qmsg[q]) \notin DOMAIN pendingResponses

\* one query() has ended in a timeout while a later call, already answered,
\* has not resumed yet: its entry is the only one in the map
C24_Witness ==
    \E p, r \in Calls :
        /\ qpc[p] = "done" /\ qres[p].kind = "timeout"
        /\ qpc[r] = "waiting" /\ fut[r].state = "result"
        /\ DOMAIN pendingResponses = {PendingKey(qmsg[r])}

\* how many handler tasks the latest send() created for agent a
Scheduled(sp, a) == Cardinality({i \in 1..Len(sp) : sp[i] = a})

\* C10: the send() of a BROADCAST schedules the handler of every agent
\* registered at that moment except the message's source, each exactly once,
\* and never the handler of the source.
C10_BroadcastFanOut ==
    [][(logLen' = logLen + 1 /\ sent'.type = "BROADCAST")
        => /\ \A a \in Range(handlers) \ {sent'.source} : Scheduled(spawned', a) = 1
           /\ \A i \in 1..Len(spawned') :
                 spawned'[i] \in Range(handlers) /\ spawned'[i] # sent'.source
      ]_vars

\* a registered agent has broadcast and the other registered agent was scheduled
C10_Witness ==
    /\ sent.type = "BROADCAST"
    /\ sent.source = "a"
    /\ handlers = <<"a", "b">>
    /\ spawned = <<"b">>

\* ---------------------------------------------------------- HappyTransport
\* number of HappyTransport.send_message() calls made
MaxSends == 2
HCalls == 1..MaxSends
\* connect(): for _ in range(50), waiting for another call's attempt
WaitPolls == 50
\* connect(): for _ in range(20), waiting for the connect event
ConnectPolls == 20

HappyInit ==
    /\ hconnected = FALSE
    /\ hconnecting = FALSE
    /\ sockUp = FALSE
    /\ hreconnect = FALSE
    /\ sioInflight = {}
    /\ hpend = <<>>
    /\ hfut = [c \in HCalls |-> "none"]
    /\ hpc = [c \in HCalls |-> "idle"]
    /\ hpolls = [c \in HCalls |-> 0]
    /\ hres = [c \in HCalls |-> "none"]
    /\ hclosed = FALSE

RemoveAt(s, i) == SubSeq(s, 1, i - 1) \o SubSeq(s, i + 1, Len(s))

\* del self._pending_responses[query_id], when the id is in the map
Without(s, c) == SelectSeq(s, LAMBDA x : x # c)

\* the call ends: it returns r or raises r
Ends(c, r) ==
    /\ hpc' = [hpc EXCEPT ![c] = "done"]
    /\ hres' = [hres EXCEPT ![c] = r]

\* on_connect: the socket.io client has established its connection, for a
\* sio.connect() in progress or by reconnecting on its own
on_connect ==
    /\ ~sockUp
    /\ sioInflight # {} \/ hreconnect
    /\ sockUp' = TRUE
    /\ hreconnect' = TRUE
    /\ hconnected' = TRUE
    /\ hconnecting' = FALSE
    /\ UNCHANGED <<sioInflight, hpend, hfut, hpc, hpolls, hres, hclosed>>
    /\ UNCHANGED nonHappyVars

\* on_disconnect: the established connection is lost
on_disconnect ==
    /\ sockUp
    /\ sockUp' = FALSE
    /\ hconnected' = FALSE
    /\ UNCHANGED <<hconnecting, hreconnect, sioInflight, hpend, hfut, hpc, hpolls, hres, hclosed>>
    /\ UNCHANGED nonHappyVars

\* send_message -> _ensure_connected -> connect(), up to its first
\* suspension: nothing to do when connected; wait for the attempt in
\* progress when _connecting; else set _connecting and await sio.connect
SendMessageStart(c) ==
    /\ hpc[c] = "idle"
    /\ \A d \in HCalls : d < c => hpc[d] # "idle"
    /\ IF hconnected
       THEN /\ hpc' = [hpc EXCEPT ![c] = "session"]
            /\ UNCHANGED <<hconnecting, sioInflight>>
       ELSE IF hconnecting
            THEN /\ hpc' = [hpc EXCEPT ![c] = "coalesced"]
                 /\ UNCHANGED <<hconnecting, sioInflight>>
            ELSE /\ hconnecting' = TRUE
                 /\ sioInflight' = sioInflight \cup {c}
                 /\ hpc' = [hpc EXCEPT ![c] = "sioconnect"]
    /\ hpolls' = [hpolls EXCEPT ![c] = 0]
    /\ UNCHANGED <<hconnected, sockUp, hreconnect, hpend, hfut, hres, hclosed>>
    /\ UNCHANGED nonHappyVars

\* connect(), waiting for another call's attempt: one sleep(0.1), then the
\* test of _connected; ConnectionError after the 50th
CoalescedPoll(c) ==
    /\ hpc[c] = "coalesced"
    /\ IF hconnected
       THEN hpc' = [hpc EXCEPT ![c] = "session"] /\ UNCHANGED <<hpolls, hres>>
       ELSE IF hpolls[c] + 1 = WaitPolls
            THEN Ends(c, "ConnectionError") /\ UNCHANGED hpolls
            ELSE hpolls' = [hpolls EXCEPT ![c] = @ + 1] /\ UNCHANGED <<hpc, hres>>
    /\ UNCHANGED <<hconnected, hconnecting, sockUp, hreconnect, sioInflight, hpend, hfut, hclosed>>
    /\ UNCHANGED nonHappyVars

\* await self.sio.connect(...) returns
SioConnectReturns(c) ==
    /\ hpc[c] = "sioconnect"
    /\ sioInflight' = sioInflight \ {c}
    /\ hpc' = [hpc EXCEPT ![c] = "postpoll"]
    /\ hpolls' = [hpolls EXCEPT ![c] = 0]
    /\ UNCHANGED <<hconnected, hconnecting, sockUp, hreconnect, hpend, hfut, hres, hclosed>>
    /\ UNCHANGED nonHappyVars

\* await self.sio.connect(...) raises: _connecting = False, ConnectionError
SioConnectRaises(c) ==
    /\ hpc[c] = "sioconnect"
    /\ sioInflight' = sioInflight \ {c}
    /\ hconnecting' = FALSE
    /\ Ends(c, "ConnectionError")
    /\ UNCHANGED <<hconnected, sockUp, hreconnect, hpend, hfut, hpolls, hclosed>>
    /\ UNCHANGED nonHappyVars

\* connect(), after sio.connect returned: one sleep(0.1), then the test of
\* _connected; after the 20th the loop ends and connect() returns all the
\* same; the finally block clears _connecting on the way out
PostPoll(c) ==
    /\ hpc[c] = "postpoll"
    /\ IF hconnected \/ hpolls[c] + 1 = ConnectPolls
       THEN /\ hconnecting' = FALSE
            /\ hpc' = [hpc EXCEPT ![c] = "session"]
            /\ UNCHANGED hpolls
       ELSE /\ hpolls' = [hpolls EXCEPT ![c] = @ + 1]
            /\ UNCHANGED <<hconnecting, hpc>>
    /\ UNCHANGED <<hconnected, sockUp, hreconnect, sioInflight, hpend, hfut, hres, hclosed>>
    /\ UNCHANGED nonHappyVars

\* _get_session_encryption gave None: ValueError, before any entry exists
SendNoSession(c) ==
    /\ hpc[c] = "session"
    /\ Ends(c, "ValueError")
    /\ UNCHANGED <<hconnected, hconnecting, sockUp, hreconnect, sioInflight, hpend, hfut,
                   hpolls, hclosed>>
    /\ UNCHANGED nonHappyVars

\* send_message with a session: the record is encrypted, the Future is
\* stored under a fresh query id, and the call awaits sio.emit
SendEmit(c) ==
    /\ hpc[c] = "session"
    /\ hpend' = Append(hpend, c)
    /\ hfut' = [hfut EXCEPT ![c] = "pending"]
    /\ hpc' = [hpc EXCEPT ![c] = "emitting"]
    /\ UNCHANGED <<hconnected, hconnecting, sockUp, hreconnect, sioInflight, hpolls, hres,
                   hclosed>>
    /\ UNCHANGED nonHappyVars

\* await self.sio.emit(...) returns: the call waits for its Future (wait_for, 120 s)
EmitReturns(c) ==
    /\ hpc[c] = "emitting"
    /\ hpc' = [hpc EXCEPT ![c] = "waiting"]
    /\ UNCHANGED <<hconnected, hconnecting, sockUp, hreconnect, sioInflight, hpend, hfut,
                   hpolls, hres, hclosed>>
    /\ UNCHANGED nonHappyVars

\* await self.sio.emit(...) raises: the emit is outside the try block
EmitRaises(c) ==
    /\ hpc[c] = "emitting"
    /\ Ends(c, "EmitError")
    /\ UNCHANGED <<hconnected, hconnecting, sockUp, hreconnect, sioInflight, hpend, hfut,
                   hpolls, hclosed>>
    /\ UNCHANGED nonHappyVars

\* the entries whose Future is not done, by position in the map
Unresolved == {i \in 1..Len(hpend) : hfut[hpend[i]] = "pending"}

\* _handle_new_message for an update that decrypts to an assistant record
\* with text: the first entry whose Future is not done is fulfilled and deleted
HandleNewMessage ==
    /\ Unresolved # {}
    /\ LET i == CHOOSE j \in Unresolved : \A k \in Unresolved : j <= k IN
       /\ hfut' = [hfut EXCEPT ![hpend[i]] = "result"]
       /\ hpend' = RemoveAt(hpend, i)
    /\ UNCHANGED <<hconnected, hconnecting, sockUp, hreconnect, sioInflight, hpc, hpolls,
                   hres, hclosed>>
    /\ UNCHANGED nonHappyVars

\* send_message's own wait_for(response_future, timeout=120.0) expires
SendTimeout(c) ==
    /\ hpc[c] = "waiting"
    /\ hfut[c] = "pending"
    /\ hfut' = [hfut EXCEPT ![c] = "timedout"]
    /\ UNCHANGED <<hconnected, hconnecting, sockUp, hreconnect, sioInflight, hpend, hpc,
                   hpolls, hres, hclosed>>
    /\ UNCHANGED nonHappyVars

\* the caller's wait_for (ask_peer's per-call timeout) cancels the call
\* while it waits for its Future: the Future is cancelled
CancelWaiting(c) ==
    /\ hpc[c] = "waiting"
    /\ hfut[c] = "pending"
    /\ hfut' = [hfut EXCEPT ![c] = "cancelled"]
    /\ UNCHANGED <<hconnected, hconnecting, sockUp, hreconnect, sioInflight, hpend, hpc,
                   hpolls, hres, hclosed>>
    /\ UNCHANGED nonHappyVars

\* the call is cancelled while it awaits sio.emit: CancelledError leaves
\* send_message there
CancelEmit(c) ==
    /\ hpc[c] = "emitting"
    /\ Ends(c, "CancelledError")
    /\ UNCHANGED <<hconnected, hconnecting, sockUp, hreconnect, sioInflight, hpend, hfut,
                   hpolls, hclosed>>
    /\ UNCHANGED nonHappyVars

\* the call is cancelled inside connect(): CancelledError is no Exception;
\* inside the try block the finally clears _connecting
CancelConnect(c) ==
    /\ hpc[c] \in {"coalesced", "sioconnect", "postpoll"}
    /\ sioInflight' = sioInflight \ {c}
    /\ hconnecting' = IF hpc[c] = "coalesced" THEN hconnecting ELSE FALSE
    /\ Ends(c, "CancelledError")
    /\ UNCHANGED <<hconnected, sockUp, hreconnect, hpend, hfut, hpolls, hclosed>>
    /\ UNCHANGED nonHappyVars

\* send_message resumes from wait_for: the response; or TimeoutError, whose
\* handler deletes the entry; or CancelledError, which no handler catches
SendResume(c) ==
    /\ hpc[c] = "waiting"
    /\ hfut[c] # "pending"
    /\ IF hfut[c] = "result"
       THEN Ends(c, "response") /\ UNCHANGED hpend
       ELSE IF hfut[c] = "timedout"
            THEN Ends(c, "TimeoutError") /\ hpend' = Without(hpend, c)
            ELSE Ends(c, "CancelledError") /\ UNCHANGED hpend
    /\ UNCHANGED <<hconnected, hconnecting, sockUp, hreconnect, sioInflight, hfut, hpolls,
                   hclosed>>
    /\ UNCHANGED nonHappyVars

\* HappyTransport.close: if self._connected: await self.sio.disconnect();
\* self._connected = False
Close ==
    /\ ~hclosed
    /\ hclosed' = TRUE
    /\ IF hconnected
       THEN sockUp' = FALSE /\ hconnected' = FALSE /\ hreconnect' = FALSE
       ELSE UNCHANGED <<sockUp, hconnected, hreconnect>>
    /\ UNCHANGED <<hconnecting, sioInflight, hpend, hfut, hpc, hpolls, hres>>
    /\ UNCHANGED nonHappyVars

HappyNext ==
    \/ on_connect
    \/ on_disconnect
    \/ \E c \in HCalls : SendMessageStart(c)
    \/ \E c \in HCalls : CoalescedPoll(c)
    \/ \E c \in HCalls : SioConnectReturns(c)
    \/ \E c \in HCalls : SioConnectRaises(c)
    \/ \E c \in HCalls : PostPoll(c)
    \/ \E c \in HCalls : SendNoSession(c)
    \/ \E c \in HCalls : SendEmit(c)
    \/ \E c \in HCalls : EmitReturns(c)
    \/ \E c \in HCalls : EmitRaises(c)
    \/ HandleNewMessage
    \/ \E c \in HCalls : SendTimeout(c)
    \/ \E c \in HCalls : CancelWaiting(c)
    \/ \E c \in HCalls : CancelEmit(c)
    \/ \E c \in HCalls : CancelConnect(c)
    \/ \E c \in HCalls : SendResume(c)
    \/ Close

\* ---------------------------------------------- HappyTransport: the claims

\* C4: once a send_message call has ended - with the response, its own
\* timeout, an error raised by the emit, or its cancellation - the pending
\* map holds no entry for its query id.
C4_EntryRemovedWhenCallEnds ==
    \A c \in HCalls : hpc[c] = "done" => c \notin Range(hpend)

\* C5: close() with queries outstanding cancels every pending entry at once:
\* after it the pending map is empty and no waiting caller's Future is
\* still pending.
C5_CloseCancelsPending ==
    [][(hclosed' /\ ~hclosed)
        => /\ hpend' = <<>>
           /\ \A c \in HCalls : hpc[c] = "waiting" => hfut'[c] # "pending"
      ]_vars

\* C6: at most one underlying sio.connect() is in flight at any time.
C6_OneConnectInFlight == Cardinality(sioInflight) <= 1

\* C32: whenever connect() (and so _ensure_connected) returns normally
\* inside a send_message call, the transport is connected.
C32_ConnectReturnsConnected ==
    [][\A c \in HCalls :
        (hpc[c] \in {"idle", "coalesced", "postpoll"} /\ hpc'[c] = "session")
            => hconnected'
      ]_vars

\* ------------------------------------------------------ mesh coordinator
\* at most this many peers are registered at a time
MaxPeers == 2
PeerNames == {"a", "b", "c"}
AgentTypes == {"opencode", "happy", "cursor"}

NoRaise == [exc |-> "none", origin |-> "none"]
NoAskResult == [success |-> FALSE, kind |-> "none"]
NoBroadcastResult == [returned |-> FALSE, success |-> FALSE]

MeshInit ==
    /\ peers = <<>>
    /\ happyCreds = FALSE
    /\ happyTransport = FALSE
    /\ opencodeTransport = FALSE
    /\ apc = "idle"
    /\ acaller = "none"
    /\ atarget = "none"
    /\ asel = "none"
    /\ acalled = FALSE
    /\ araised = NoRaise
    /\ aresult = NoAskResult
    /\ bpc = "idle"
    /\ bcaller = "none"
    /\ bsnap = <<>>
    /\ bidx = 0
    /\ notified = <<>>
    /\ errors = <<>>
    /\ attempts = <<>>
    /\ bresult = NoBroadcastResult

\* PeerRegistry.names
Names(ps) == {ps[i].name : i \in 1..Len(ps)}

\* PeerRegistry.get
Get(ps, name) == ps[CHOOSE i \in 1..Len(ps) : ps[i].name = name]

\* Peer (the fields the registry's callers read); session_id stands for
\* session_id, path and capabilities, which the registry never looks at
Peer(name, agent_type, session_id, is_active) ==
    [name |-> name, agent_type |-> agent_type, session_id |-> session_id,
     is_active |-> is_active]

\* a registration that appends the peer whether or not the name is there
RegisterAppends(ps, peer) == Append(ps, peer)

\* PeerRegistry.register: self._peers[peer.name] = peer; a name already
\* there keeps its place in the dict
Register(ps, peer) ==
    IF peer.name \in Names(ps)
    THEN [i \in 1..Len(ps) |-> IF ps[i].name = peer.name THEN peer ELSE ps[i]]
    ELSE Append(ps, peer)

\* PeerRegistry.unregister: del self._peers[name]
Unregister(ps, name) == SelectSeq(ps, LAMBDA p : p.name # name)

\* a set_active that writes the flag of every registered peer
SetActiveAll(ps, name, is_active) ==
    [i \in 1..Len(ps) |-> [ps[i] EXCEPT !.is_active = is_active]]

\* PeerRegistry.set_active: peer.is_active = is_active on the peer found
SetActive(ps, name, is_active) ==
    [i \in 1..Len(ps) |->
        IF ps[i].name = name THEN [ps[i] EXCEPT !.is_active = is_active] ELSE ps[i]]

\* the register tool of the mesh server: a new Peer, active by default
register(name, agent_type) ==
    /\ name \in Names(peers) \/ Len(peers) < MaxPeers
    /\ peers' = Register(peers, Peer(name, agent_type, "s1", TRUE))
    /\ UNCHANGED <<happyCreds, happyTransport, opencodeTransport, askVars, broadcastVars>>
    /\ UNCHANGED nonMeshVars

\* the unregister tool of the mesh server
unregister(name) ==
    /\ name \in Names(peers)
    /\ peers' = Unregister(peers, name)
    /\ UNCHANGED <<happyCreds, happyTransport, opencodeTransport, askVars, broadcastVars>>
    /\ UNCHANGED nonMeshVars

\* auth.happy.save_credentials: the credentials file gets its "happy" entry
save_credentials ==
    /\ ~happyCreds
    /\ happyCreds' = TRUE
    /\ UNCHANGED <<peers, happyTransport, opencodeTransport, askVars, broadcastVars>>
    /\ UNCHANGED nonMeshVars

\* get_transport_for_peer, with get_opencode_transport and
\* get_happy_transport: the transport, or ValueError (raised); ht and oc say
\* which of the two singletons exist, before and after
get_transport_for_peer(agent_type, ht, oc) ==
    IF agent_type = "opencode"
    THEN [raised |-> FALSE, transport |-> "opencode", happy |-> ht, opencode |-> TRUE]
    ELSE IF agent_type = "happy"
         THEN IF ht \/ happyCreds
              THEN [raised |-> FALSE, transport |-> "happy", happy |-> TRUE, opencode |-> oc]
              ELSE [raised |-> TRUE, transport |-> "none", happy |-> ht, opencode |-> oc]
         ELSE [raised |-> TRUE, transport |-> "none", happy |-> ht, opencode |-> oc]

AskPrecheckSelfFirst(caller, target, ps) ==
    IF target = caller THEN "Cannot query yourself"
    ELSE IF target \notin Names(ps) THEN "not found"
    ELSE "ok"

\* ask_peer's two checks before the try block, in their order
AskPrecheck(caller, target, ps) ==
    IF target \notin Names(ps) THEN "not found"
    ELSE IF target = caller THEN "Cannot query yourself"
    ELSE "ok"

AskExceptNoValueError(exc) ==
    IF exc = "TimeoutError"
    THEN [success |-> FALSE, kind |-> "did not respond within"]
    ELSE [success |-> FALSE, kind |-> "Transport error"]

\* ask_peer's except clauses, in their order: asyncio.TimeoutError,
\* ValueError, Exception
AskExcept(exc) ==
    IF exc = "TimeoutError"
    THEN [success |-> FALSE, kind |-> "did not respond within"]
    ELSE IF exc = "ValueError"
         THEN [success |-> FALSE, kind |-> "ValueError message"]
         ELSE [success |-> FALSE, kind |-> "Transport error"]

\* what transport.send_message can raise: HappyTransport raises
\* ConnectionError from connect(), ValueError for an unknown session,
\* TimeoutError after its own 120 s wait, and whatever sio.emit raises;
\* OpenCodeTransport raises what the client library raises
SendMessageRaises(transport) ==
    IF transport = "happy"
    THEN {"ConnectionError", "ValueError", "TimeoutError", "Exception"}
    ELSE {"Exception"}

\* ask_peer up to its first suspension: the checks, the transport, and the
\* call of send_message under wait_for
ask_peer(caller, target) ==
    /\ apc \in {"idle", "done"}
    /\ acaller' = caller
    /\ atarget' = target
    /\ LET pre == AskPrecheck(caller, target, peers) IN
       IF pre # "ok"
       THEN /\ apc' = "done"
            /\ aresult' = [success |-> FALSE, kind |-> pre]
            /\ asel' = "none"
            /\ acalled' = FALSE
            /\ araised' = NoRaise
            /\ UNCHANGED <<happyTransport, opencodeTransport>>
       ELSE LET t == get_transport_for_peer(Get(peers, target).agent_type,
                                            happyTransport, opencodeTransport) IN
            /\ happyTransport' = t.happy
            /\ opencodeTransport' = t.opencode
            /\ asel' = t.transport
            /\ IF t.raised
               THEN /\ apc' = "done"
                    /\ aresult' = AskExcept("ValueError")
                    /\ araised' = [exc |-> "ValueError", origin |-> "selection"]
                    /\ acalled' = FALSE
               ELSE /\ apc' = "dispatched"
                    /\ aresult' = NoAskResult
                    /\ araised' = NoRaise
                    /\ acalled' = TRUE
    /\ UNCHANGED <<peers, happyCreds, broadcastVars>>
    /\ UNCHANGED nonMeshVars

\* transport.send_message returns the response
AskResponse ==
    /\ apc = "dispatched"
    /\ apc' = "done"
    /\ aresult' = [success |-> TRUE, kind |-> "response"]
    /\ UNCHANGED <<acaller, atarget, asel, acalled, araised>>
    /\ UNCHANGED <<peers, happyCreds, happyTransport, opencodeTransport, broadcastVars>>
    /\ UNCHANGED nonMeshVars

\* wait_for(..., timeout=timeout) expires: asyncio.TimeoutError
AskExpires ==
    /\ apc = "dispatched"
    /\ apc' = "done"
    /\ araised' = [exc |-> "TimeoutError", origin |-> "wait_for"]
    /\ aresult' = AskExcept("TimeoutError")
    /\ UNCHANGED <<acaller, atarget, asel, acalled>>
    /\ UNCHANGED <<peers, happyCreds, happyTransport, opencodeTransport, broadcastVars>>
    /\ UNCHANGED nonMeshVars

\* transport.send_message raises
AskTransportRaises(exc) ==
    /\ apc = "dispatched"
    /\ exc \in SendMessageRaises(asel)
    /\ apc' = "done"
    /\ araised' = [exc |-> exc, origin |-> "transport"]
    /\ aresult' = AskExcept(exc)
    /\ UNCHANGED <<acaller, atarget, asel, acalled>>
    /\ UNCHANGED <<peers, happyCreds, happyTransport, opencodeTransport, broadcastVars>>
    /\ UNCHANGED nonMeshVars

IsCallerNever(peer, caller) == FALSE

\* broadcast: if peer.name == caller: continue
IsCaller(peer, caller) == peer.name = caller

\* broadcast's loop from position i of the list up to its next suspension:
\* the caller is skipped, a peer whose transport selection raises goes to
\* errors, and the loop stops at the first peer whose send_notification is
\* awaited (idx) or at the end of the list (idx = Len + 1)
RECURSIVE RunLoop(_, _, _, _, _, _, _)
RunLoop(snap, i, caller, errs, atts, ht, oc) ==
    IF i > Len(snap)
    THEN [idx |-> i, errors |-> errs, attempts |-> atts, happy |-> ht, opencode |-> oc]
    ELSE IF IsCaller(snap[i], caller)
         THEN RunLoop(snap, i + 1, caller, errs, atts, ht, oc)
         ELSE LET t == get_transport_for_peer(snap[i].agent_type, ht, oc) IN
              IF t.raised
              THEN RunLoop(snap, i + 1, caller, Append(errs, snap[i].name),
                           Append(atts, snap[i].name), t.happy, t.opencode)
              ELSE [idx |-> i, errors |-> errs, attempts |-> Append(atts, snap[i].name),
                    happy |-> t.happy, opencode |-> t.opencode]

\* the state broadcast is in after the loop ran to r, with nots notified
BroadcastAdvance(r, snap, nots) ==
    /\ bidx' = r.idx
    /\ errors' = r.errors
    /\ attempts' = r.attempts
    /\ happyTransport' = r.happy
    /\ opencodeTransport' = r.opencode
    /\ notified' = nots
    /\ IF r.idx > Len(snap)
       THEN /\ bpc' = "done"
            /\ bresult' = [returned |-> TRUE, success |-> Len(r.errors) = 0]
       ELSE /\ bpc' = "sending"
            /\ bresult' = NoBroadcastResult

\* broadcast up to its first suspension
broadcast(caller) ==
    /\ bpc \in {"idle", "done"}
    /\ bcaller' = caller
    /\ bsnap' = peers
    /\ BroadcastAdvance(RunLoop(peers, 1, caller, <<>>, <<>>, happyTransport,
                                opencodeTransport), peers, <<>>)
    /\ UNCHANGED <<peers, happyCreds, askVars>>
    /\ UNCHANGED nonMeshVars

\* the awaited transport.send_notification returns: notified.append
NotificationReturns ==
    /\ bpc = "sending"
    /\ BroadcastAdvance(RunLoop(bsnap, bidx + 1, bcaller, errors, attempts, happyTransport,
                                opencodeTransport), bsnap, Append(notified, bsnap[bidx].name))
    /\ UNCHANGED <<bcaller, bsnap>>
    /\ UNCHANGED <<peers, happyCreds, askVars>>
    /\ UNCHANGED nonMeshVars

\* the awaited transport.send_notification raises: errors.append
NotificationRaises ==
    /\ bpc = "sending"
    /\ BroadcastAdvance(RunLoop(bsnap, bidx + 1, bcaller, Append(errors, bsnap[bidx].name),
                                attempts, happyTransport, opencodeTransport), bsnap, notified)
    /\ UNCHANGED <<bcaller, bsnap>>
    /\ UNCHANGED <<peers, happyCreds, askVars>>
    /\ UNCHANGED nonMeshVars

RegistryNext ==
    \/ \E name \in PeerNames, agent_type \in AgentTypes : register(name, agent_type)
    \/ \E name \in PeerNames : unregister(name)
    \/ save_credentials

AskNext ==
    \/ RegistryNext
    \/ \E caller \in PeerNames, target \in PeerNames : ask_peer(caller, target)
    \/ AskResponse
    \/ AskExpires
    \/ \E exc \in SendMessageRaises("happy") : AskTransportRaises(exc)

BroadcastNext ==
    \/ RegistryNext
    \/ \E caller \in PeerNames : broadcast(caller)
    \/ NotificationReturns
    \/ NotificationRaises

\* --------------------------------------------- mesh coordinator: the claims

\* C7: ask_peer dispatches to a transport only if the target is registered
\* and is not the caller. An unregistered target gets the not-found error,
\* also when it equals the caller; a registered target equal to the caller
\* gets the self-query error; in both cases no transport is selected or
\* called, no transport is created and the registry is unchanged.
C7_AskPeerChecksFirst ==
    [][(apc # "dispatched" /\ apc' # "idle" /\ askVars' # askVars)
        => LET rejected == /\ aresult'.success = FALSE
                           /\ asel' = "none"
                           /\ acalled' = FALSE
                           /\ peers' = peers
                           /\ happyTransport' = happyTransport
                           /\ opencodeTransport' = opencodeTransport
           IN /\ atarget' \notin Names(peers)
                    => aresult'.kind = "not found" /\ rejected
              /\ (atarget' \in Names(peers) /\ atarget' = acaller')
                    => aresult'.kind = "Cannot query yourself" /\ rejected
              /\ (asel' # "none" \/ acalled')
                    => atarget' \in Names(peers) /\ atarget' # acaller'
      ]_vars

\* C7 witness: a peer that is not registered has asked itself and got the
\* not-found error, while another peer is registered.
C7_Witness ==
    /\ apc = "done"
    /\ atarget = acaller
    /\ aresult = [success |-> FALSE, kind |-> "not found"]
    /\ asel = "none"
    /\ ~acalled
    /\ peers # <<>>

\* what C8 says of every ended ask_peer call but for the exception that
\* is neither the per-call timeout nor a ValueError
C8_Common ==
    /\ aresult.kind # "none"
    /\ araised.origin = "wait_for" => aresult.kind = "did not respond within"
    /\ araised.exc = "ValueError" => aresult.kind = "ValueError message"
    /\ araised.exc = "ConnectionError" => aresult.kind = "Transport error"
    /\ aresult.success <=> (acalled /\ araised = NoRaise)
    /\ aresult.success <=> aresult.kind = "response"

\* C8 as stated: an ended ask_peer call has returned a result map; the
\* per-call timeout gives 'did not respond within', a ValueError its own
\* message, and any other exception raised by transport selection or
\* dispatch gives 'Transport error'; success only on a response.
C8_AnyOtherIsTransportError ==
    apc = "done"
        => /\ C8_Common
           /\ (araised.origin \in {"selection", "transport"} /\ araised.exc # "ValueError")
                  => aresult.kind = "Transport error"

\* C8 amended: as stated, except that a TimeoutError raised by the transport
\* itself is reported as the timeout outcome too; an exception that is
\* neither a TimeoutError nor a ValueError gives 'Transport error'.
C8_AskPeerOutcomes ==
    apc = "done"
        => /\ C8_Common
           /\ araised.exc = "TimeoutError" => aresult.kind = "did not respond within"
           /\ araised.exc \notin {"none", "TimeoutError", "ValueError"}
                  => aresult.kind = "Transport error"

\* C8 witness: the transport raised TimeoutError on its own and ask_peer
\* returned the timeout outcome.
C8_Witness ==
    /\ apc = "done"
    /\ araised = [exc |-> "TimeoutError", origin |-> "transport"]
    /\ aresult = [success |-> FALSE, kind |-> "did not respond within"]

\* s holds each element of S once and nothing else
ExactlyOnce(s, S) == Range(s) = S /\ Len(s) = Cardinality(S)

\* C9: an ended broadcast has returned its map; of the peers registered when
\* it was called, each one other than the caller was attempted exactly once
\* and is in exactly one of notified and errors, nobody else is, and success
\* is true iff errors is empty.
C9_BroadcastPartialFailure ==
    bpc = "done"
        => LET others == Names(bsnap) \ {bcaller} IN
           /\ bresult.returned
           /\ ExactlyOnce(attempts, others)
           /\ ExactlyOnce(notified \o errors, others)
           /\ bresult.success <=> errors = <<>>

\* C9 witness: a broadcast by a caller that is not registered, among
\* MaxPeers registered peers, ended with the first peer failed and every
\* peer after it notified.
C9_Witness ==
    /\ bpc = "done"
    /\ Len(bsnap) = MaxPeers
    /\ bcaller \notin Names(bsnap)
    /\ Len(errors) = 1
    /\ Len(notified) = MaxPeers - 1
    /\ attempts[1] = errors[1]
    /\ ~bresult.success

\* -------------------------------------------------------- HappyEncryption
\* A byte string is a sequence of bytes. A byte is a literal value (kind
\* "lit"), or one byte of a value the model does not compute: byte i of the
\* Curve25519 public key of the private key `key` (kind "pk"), or byte i of
\* the authenticated ciphertext, tag included, of the plaintext pt under the
\* algorithm alg, the key `key` and the nonce `nonce` (kind "seal"). x holds
\* the bits changed in such a byte since it was produced.
Lit(v) ==
    [kind |-> "lit", alg |-> "", v |-> v, key |-> 0, nonce |-> 0, pt |-> <<>>, i |-> 0, x |-> 0]
PkByte(sk, i) ==
    [kind |-> "pk", alg |-> "", v |-> 0, key |-> sk, nonce |-> 0, pt |-> <<>>, i |-> i, x |-> 0]
SealByte(alg, k, n, p, i) ==
    [kind |-> "seal", alg |-> alg, v |-> 0, key |-> k, nonce |-> n, pt |-> p, i |-> i, x |-> 0]

\* key = I[:32]; the size of every key
KEY_SIZE == 32
\* SecretBoxEncryption.NONCE_SIZE, BoxEncryption.NONCE_SIZE
NONCE_SIZE == 24
\* BoxEncryption.PUBLIC_KEY_SIZE
PUBLIC_KEY_SIZE == 32
\* AES256Encryption.IV_SIZE
IV_SIZE == 12
\* AES256Encryption.TAG_SIZE; the Poly1305 tag has the same size
TAG_SIZE == 16

\* a key, nonce or point that is none of those the model names
Unknown == 0 - 1

\* HappyEncryption.master_secret
MasterSecret == 1
\* the session keys delivered by the network
DataKeys == {2, 3}
\* PrivateKey.generate(): the ephemeral private keys
Ephemerals == {6, 7}
\* nacl_random(NONCE_SIZE), os.urandom(IV_SIZE)
Nonces == {1, 2}
\* content_data_key = derive_key(master_secret, "Happy EnCoder", ["content"])
ContentKey(master) == 10 + master

Rep(n, b) == [j \in 1..n |-> b]
\* s[:n] and s[n:], which never raise
Take(s, n) == SubSeq(s, 1, IF n < Len(s) THEN n ELSE Len(s))
Drop(s, n) == IF n >= Len(s) THEN <<>> ELSE SubSeq(s, n + 1, Len(s))

KeyBytes(k) == Rep(KEY_SIZE, Lit(k))
\* bytes(private_key.public_key)
PublicKeyBytes(sk) == [j \in 1..PUBLIC_KEY_SIZE |-> PkByte(sk, j)]
\* the ciphertext and tag of an authenticated encryption
Seal(alg, k, n, p) == [j \in 1..(Len(p) + TAG_SIZE) |-> SealByte(alg, k, n, p, j)]

\* the key or nonce that n literal bytes spell
LitsId(bs, n) ==
    IF Len(bs) = n /\ \A j \in 1..Len(bs) : bs[j].kind = "lit" /\ bs[j].v = bs[1].v
    THEN bs[1].v
    ELSE Unknown

\* PublicKey(bs) as Curve25519 reads it: 32 bytes, the top bit of the last
\* byte ignored; the private key it belongs to
Point(bs) ==
    IF /\ Len(bs) = PUBLIC_KEY_SIZE
       /\ \A j \in 1..Len(bs) :
             /\ bs[j].kind = "pk"
             /\ bs[j].i = j
             /\ bs[j].key = bs[1].key
             /\ bs[j].x \in (IF j = PUBLIC_KEY_SIZE THEN {0, 128} ELSE {0})
    THEN bs[1].key
    ELSE Unknown

\* Box(private, public): the key both sides compute
Shared(sk, point) ==
    IF point = Unknown \/ sk = Unknown THEN Unknown
    ELSE 1000 + 100 * (IF sk < point THEN sk ELSE point) + (IF sk < point THEN point ELSE sk)

\* authenticated decryption: the plaintext if body is, byte for byte, what
\* Seal gave for this algorithm, key and nonce; else it raises (ok FALSE)
Open(alg, k, n, body) ==
    IF /\ k # Unknown
       /\ n # Unknown
       /\ Len(body) >= TAG_SIZE
       /\ Len(body) = Len(body[1].pt) + TAG_SIZE
       /\ \A j \in 1..Len(body) : body[j] = SealByte(alg, k, n, body[1].pt, j)
    THEN [ok |-> TRUE, pt |-> body[1].pt]
    ELSE [ok |-> FALSE, pt |-> <<>>]

\* base64 text: the bytes it spells, the characters outside the alphabet in
\* it, and whether what is left has a decodable length and padding
b64encode(bs) == [payload |-> bs, stray |-> 0, padded |-> TRUE]

\* base64.b64decode(text): characters outside the alphabet are discarded
\* (validate=False); binascii.Error for a bad length or padding
b64decode(text) ==
    IF text.padded THEN [ok |-> TRUE, bytes |-> text.payload]
    ELSE [ok |-> FALSE, bytes |-> <<>>]

NoBytes == [ok |-> FALSE, bytes |-> <<>>]

\* HappyEncryption.encrypt_encryption_key, with the ephemeral key and the
\* nonce it drew
encrypt_encryption_key(master, eph, nonce, k) ==
    <<Lit(0)>> \o PublicKeyBytes(eph) \o Rep(NONCE_SIZE, Lit(nonce))
        \o Seal("box", Shared(eph, ContentKey(master)), nonce, KeyBytes(k))

\* HappyEncryption.decrypt_encryption_key: the key bytes, or None (ok FALSE)
decrypt_encryption_key(master, encrypted_b64) ==
    LET d == b64decode(encrypted_b64)
        encrypted == d.bytes
        encrypted_data == Drop(encrypted, 1)
        opened == Open("box",
                       Shared(ContentKey(master), Point(Take(encrypted_data, PUBLIC_KEY_SIZE))),
                       LitsId(Take(Drop(encrypted_data, PUBLIC_KEY_SIZE), NONCE_SIZE),
                              NONCE_SIZE),
                       Drop(encrypted_data, PUBLIC_KEY_SIZE + NONCE_SIZE))
    IN IF ~d.ok \/ Len(encrypted) = 0 THEN NoBytes
       ELSE IF encrypted[1] # Lit(0) THEN NoBytes
       ELSE IF opened.ok THEN [ok |-> TRUE, bytes |-> opened.pt]
       ELSE NoBytes

\* --------------------------------------- HappyEncryption: the session cache
\* SessionEncryption objects created in one run
MaxInits == 3
SessionIds == {"s1", "s2"}

\* session.get("dataEncryptionKey"): absent, None or ""
NoField == [present |-> FALSE, text |-> b64encode(<<>>)]
Field(text) == [present |-> TRUE, text |-> text]

\* a wrapped key with its version byte set to 1
BadVersion(bs) == <<Lit(1)>> \o Drop(bs, 1)

\* the dataEncryptionKey fields the network delivers
Fields ==
    {NoField}
    \cup {Field(b64encode(encrypt_encryption_key(MasterSecret, 6, 1, k))) : k \in DataKeys}
    \cup {Field(b64encode(BadVersion(encrypt_encryption_key(MasterSecret, 6, 1, 2))))}

SessionRecords == [id : SessionIds, dataEncryptionKey : Fields]

EncInit ==
    /\ sessionEncryptions = <<>>
    /\ instances = 0
    /\ fetched = <<>>

\* HappyEncryption.initialize_session: the cache after it, n being the
\* number of the SessionEncryption it creates
InitializeSession(cache, n, session_id, data_key) ==
    [s \in (DOMAIN cache) \cup {session_id} |->
        IF s = session_id
        THEN IF data_key.ok
             THEN [scheme |-> "aesgcm", key |-> LitsId(data_key.bytes, KEY_SIZE), instance |-> n]
             ELSE [scheme |-> "legacy", key |-> MasterSecret, instance |-> n]
        ELSE cache[s]]

\* a direct call of initialize_session, with a key or with None
initialize_session(session_id, data_key) ==
    /\ instances < MaxInits
    /\ instances' = instances + 1
    /\ sessionEncryptions' = InitializeSession(sessionEncryptions, instances + 1, session_id,
                                               data_key)
    /\ fetched' = <<>>
    /\ UNCHANGED nonEncVars

\* _fetch_sessions' loop over the sessions of the response, from the j-th on
RECURSIVE FetchLoop(_, _, _, _)
FetchLoop(cache, n, sessions, j) ==
    IF j > Len(sessions) THEN cache
    ELSE LET session == sessions[j]
             data_key == IF session.dataEncryptionKey.present
                         THEN decrypt_encryption_key(MasterSecret,
                                                     session.dataEncryptionKey.text)
                         ELSE NoBytes
         IN FetchLoop(InitializeSession(cache, n + 1, session.id, data_key), n + 1,
                      sessions, j + 1)

\* HappyTransport._fetch_sessions, from the response on
FetchSessions(sessions) ==
    /\ instances + Len(sessions) <= MaxInits
    /\ instances' = instances + Len(sessions)
    /\ sessionEncryptions' = FetchLoop(sessionEncryptions, instances, sessions, 1)
    /\ fetched' = sessions
    /\ UNCHANGED nonEncVars

\* HappyEncryption.get_session_encryption
get_session_encryption(session_id) ==
    IF session_id \in DOMAIN sessionEncryptions THEN sessionEncryptions[session_id]
    ELSE [scheme |-> "none", key |-> Unknown, instance |-> 0]

EncNext ==
    \/ \E s \in SessionIds : initialize_session(s, NoBytes)
    \/ \E s \in SessionIds, k \in DataKeys :
          initialize_session(s, [ok |-> TRUE, bytes |-> KeyBytes(k)])
    \/ \E r \in SessionRecords : FetchSessions(<<r>>)
    \/ \E r1 \in SessionRecords, r2 \in SessionRecords : FetchSessions(<<r1, r2>>)

\* --------------------------- HappyEncryption: the session cache, the claims

\* C11: once a session id has a cached SessionEncryption, no later
\* initialize_session for that id - direct or made by a session fetch, with
\* the same key or another - changes the cached instance, its scheme or key.
C11_InitializeSessionIdempotent ==
    [][\A s \in DOMAIN sessionEncryptions :
          sessionEncryptions'[s] = sessionEncryptions[s]]_vars

\* the last record for its session in the fetched list
LastFor(j) == \A k \in (j + 1)..Len(fetched) : fetched[k].id # fetched[j].id

\* C12: after a session fetch, a session whose record carries a wrapped key
\* is bound to the versioned AES-GCM scheme (keyed by the unwrapped key),
\* and a session is bound to the legacy scheme, keyed by the master secret,
\* only if its record carries no wrapped key.
C12_SchemeFollowsWrappedKey ==
    \A j \in 1..Len(fetched) :
        LastFor(j) =>
            LET enc == get_session_encryption(fetched[j].id)
                unwrapped == decrypt_encryption_key(MasterSecret,
                                                    fetched[j].dataEncryptionKey.text)
            IN IF fetched[j].dataEncryptionKey.present
               THEN /\ enc.scheme = "aesgcm"
                    /\ unwrapped.ok => enc.key = LitsId(unwrapped.bytes, KEY_SIZE)
               ELSE enc = [scheme |-> "legacy", key |-> MasterSecret, instance |-> enc.instance]

\* ------------------------------------------- the encryption schemes
CipherInit ==
    /\ cop = [op |-> "none", scheme |-> "none", key |-> 0, dkey |-> 0]
    /\ cplain = <<>>
    /\ cwire = <<>>
    /\ cresult = <<>>

\* a Python value: a str (s: its characters), a list, a tuple or a dict
\* (e: the elements; a dict's are pairs of a str key s and a value e[1])
Str(cs) == [t |-> "str", s |-> cs, e |-> <<>>]
List(es) == [t |-> "list", s |-> <<>>, e |-> es]
TupleOf(es) == [t |-> "tuple", s |-> <<>>, e |-> es]
Pair(k, v) == [t |-> "pair", s |-> k, e |-> <<v>>]
Dict(ps) == [t |-> "dict", s |-> <<>>, e |-> ps]
\* None
NoneItem == [t |-> "None", s |-> <<>>, e |-> <<>>]
\* a bytes value returned in place of an item
BytesItem(bs) == [t |-> "bytes", s |-> <<>>, e |-> bs]

\* the items handed to encrypt: "a", "", ["a", ""], {"k": ["a", ""]},
\* [{"k": ["a", ""]}, "a"], ["a"] and the tuple ("a",)
PyItems ==
    LET a == Str(<<97>>)
        l == List(<<a, Str(<<>>)>>)
        d == Dict(<<Pair(<<107>>, l)>>)
    IN {a, Str(<<>>), l, d, List(<<d, a>>), List(<<a>>), TupleOf(<<a>>)}

\* json.dumps(x), as character codes: separators ", " and ": "
RECURSIVE Dumps(_)
RECURSIVE DumpsAll(_)
DumpsAll(es) ==
    IF es = <<>> THEN <<>>
    ELSE Dumps(es[1]) \o (IF Len(es) = 1 THEN <<>> ELSE <<44, 32>> \o DumpsAll(Tail(es)))
Dumps(x) ==
    IF x.t = "str" THEN <<34>> \o x.s \o <<34>>
    ELSE IF x.t = "pair" THEN <<34>> \o x.s \o <<34, 58, 32>> \o Dumps(x.e[1])
    ELSE IF x.t = "dict" THEN <<123>> \o DumpsAll(x.e) \o <<125>>
    ELSE <<91>> \o DumpsAll(x.e) \o <<93>>

\* x is made of str, list and dict only
RECURSIVE JsonCompatible(_)
JsonCompatible(x) ==
    /\ x.t \in {"str", "list", "dict", "pair"}
    /\ \A j \in 1..Len(x.e) : JsonCompatible(x.e[j])

\* str.encode() and bytes.decode()
Encode(cs) == [j \in 1..Len(cs) |-> Lit(cs[j])]
Decode(bs) == [j \in 1..Len(bs) |-> bs[j].v]

\* json.loads(bs.decode()): the value whose text this is; None where the
\* callers catch its exception
JsonLoads(bs) ==
    IF \E y \in PyItems : JsonCompatible(y) /\ Dumps(y) = Decode(bs)
    THEN CHOOSE y \in PyItems : JsonCompatible(y) /\ Dumps(y) = Decode(bs)
    ELSE NoneItem

\* SecretBoxEncryption.encrypt, one item: nonce + ciphertext
SecretBoxEncrypt(key, nonce, item) ==
    Rep(NONCE_SIZE, Lit(nonce)) \o Seal("secretbox", key, nonce, Encode(Dumps(item)))

\* SecretBoxEncryption.decrypt, one item
SecretBoxDecrypt(key, item) ==
    LET opened == Open("secretbox", key, LitsId(Take(item, NONCE_SIZE), NONCE_SIZE),
                       Drop(item, NONCE_SIZE))
    IN IF opened.ok THEN JsonLoads(opened.pt) ELSE NoneItem

\* BoxEncryption.encrypt, one item: ephemeral public key + nonce + ciphertext
BoxEncrypt(seed, eph, nonce, item) ==
    PublicKeyBytes(eph) \o Rep(NONCE_SIZE, Lit(nonce))
        \o Seal("box", Shared(eph, seed), nonce, Encode(Dumps(item)))

\* BoxEncryption.decrypt, one item
BoxDecrypt(seed, item) ==
    LET encrypted == Drop(item, PUBLIC_KEY_SIZE)
        opened == Open("box", Shared(seed, Point(Take(item, PUBLIC_KEY_SIZE))),
                       LitsId(Take(encrypted, NONCE_SIZE), NONCE_SIZE),
                       Drop(encrypted, NONCE_SIZE))
    IN IF opened.ok THEN JsonLoads(opened.pt) ELSE NoneItem

\* AES256Encryption.encrypt, one item: version + iv + ciphertext and tag
AESEncrypt(key, iv, item) ==
    <<Lit(0)>> \o Rep(IV_SIZE, Lit(iv)) \o Seal("aesgcm", key, iv, Encode(Dumps(item)))

AESDecryptNoVersion(key, item) ==
    LET opened == Open("aesgcm", key, LitsId(Take(item, IV_SIZE), IV_SIZE),
                       Drop(item, IV_SIZE))
    IN IF opened.ok THEN JsonLoads(opened.pt) ELSE NoneItem

\* AES256Encryption.decrypt, one item
AESDecrypt(key, item) ==
    LET opened == Open("aesgcm", key, LitsId(Take(Drop(item, 1), IV_SIZE), IV_SIZE),
                       Drop(item, 1 + IV_SIZE))
    IN IF Len(item) = 0 THEN NoneItem
       ELSE IF item[1] # Lit(0) THEN NoneItem
       ELSE IF opened.ok THEN JsonLoads(opened.pt) ELSE NoneItem

\* the operations: the three schemes on byte strings; SessionEncryption
\* encrypt_raw / decrypt_raw over AES-GCM and over the legacy scheme (the
\* latter also HappyEncryption.encrypt_raw / decrypt_raw), and the key wrap,
\* on base64 text
ByteSchemes == {"secretbox", "box", "aesgcm"}
TextSchemes == {"session_aesgcm", "session_legacy", "keywrap"}
CipherKeys == {1, 2}

\* what one encryption gives: for the schemes on byte strings the bytes
\* are payload (the text attributes stay as b64encode sets them)
EncryptItem(scheme, key, nonce, eph, plain) ==
    b64encode(
        IF scheme \in {"secretbox", "session_legacy"} THEN SecretBoxEncrypt(key, nonce, plain)
        ELSE IF scheme = "box" THEN BoxEncrypt(key, eph, nonce, plain)
        ELSE IF scheme = "keywrap" THEN encrypt_encryption_key(key, eph, nonce, plain)
        ELSE AESEncrypt(key, nonce, plain))

\* what one decryption gives
DecryptItem(scheme, key, w) ==
    IF scheme = "secretbox" THEN SecretBoxDecrypt(key, w.payload)
    ELSE IF scheme = "box" THEN BoxDecrypt(key, w.payload)
    ELSE IF scheme = "aesgcm" THEN AESDecrypt(key, w.payload)
    ELSE IF scheme = "keywrap"
         THEN LET k == decrypt_encryption_key(key, w)
              IN IF k.ok THEN BytesItem(k.bytes) ELSE NoneItem
         ELSE LET d == b64decode(w)
              IN IF ~d.ok THEN NoneItem
                 ELSE IF scheme = "session_aesgcm" THEN AESDecrypt(key, d.bytes)
                 ELSE SecretBoxDecrypt(key, d.bytes)

\* the longest batch
MaxBatch == 2

\* the batches of items: every item alone, and batches of two items in turn
Batches ==
    {<<x>> : x \in PyItems}
    \cup {[j \in 1..n |-> IF j % 2 = 1 THEN Dict(<<Pair(<<107>>, List(<<Str(<<97>>), Str(<<>>)>>))>>)
                          ELSE Str(<<97>>)] : n \in 2..MaxBatch}

\* encrypt(data): the j-th item under the j-th nonce and ephemeral key
Encrypt(scheme, key, batch) ==
    /\ cop.op = "none"
    /\ scheme \in ByteSchemes \/ Len(batch) = 1
    /\ cop' = [op |-> "encrypt", scheme |-> scheme, key |-> key, dkey |-> key]
    /\ cplain' = batch
    /\ cwire' = [j \in 1..Len(batch) |->
                    EncryptItem(scheme, key, 1 + (j % 2), 6 + (j % 2), batch[j])]
    /\ cresult' = <<>>
    /\ UNCHANGED nonCipherVars

\* encrypt_encryption_key(k)
EncryptKey(master, k) ==
    /\ cop.op = "none"
    /\ cop' = [op |-> "encrypt", scheme |-> "keywrap", key |-> master, dkey |-> master]
    /\ cplain' = <<BytesItem(KeyBytes(k))>>
    /\ cwire' = <<EncryptItem("keywrap", master, 1, 6, k)>>
    /\ cresult' = <<>>
    /\ UNCHANGED nonCipherVars

\* one bit of a byte changed
XorBit(v, m) == IF (v \div m) % 2 = 1 THEN v - m ELSE v + m
FlipBits(b, m) == IF b.kind = "lit" THEN [b EXCEPT !.v = XorBit(b.v, m)]
                  ELSE [b EXCEPT !.x = XorBit(b.x, m)]

\* on the way, one byte of item j gets its lowest or its highest bit changed
FlipByte(j, pos, m) ==
    /\ cop.op = "encrypt"
    /\ j \in 1..Len(cwire)
    /\ pos \in 1..Len(cwire[j].payload)
    /\ cop' = [cop EXCEPT !.op = "tamper"]
    /\ cwire' = [cwire EXCEPT ![j].payload[pos] = FlipBits(@, m)]
    /\ UNCHANGED <<cplain, cresult>>
    /\ UNCHANGED nonCipherVars

\* on the way, item j is cut to its first n bytes (n = 0: it arrives empty)
Truncate(j, n) ==
    /\ cop.op = "encrypt"
    /\ j \in 1..Len(cwire)
    /\ n < Len(cwire[j].payload)
    /\ cop' = [cop EXCEPT !.op = "tamper"]
    /\ cwire' = [cwire EXCEPT ![j].payload = Take(@, n)]
    /\ UNCHANGED <<cplain, cresult>>
    /\ UNCHANGED nonCipherVars

\* on the way, the base64 text gets a character outside the alphabet
StrayCharacter ==
    /\ cop.op = "encrypt"
    /\ cop.scheme \in TextSchemes
    /\ cop' = [cop EXCEPT !.op = "tamper"]
    /\ cwire' = [cwire EXCEPT ![1].stray = 1]
    /\ UNCHANGED <<cplain, cresult>>
    /\ UNCHANGED nonCipherVars

\* on the way, the base64 text loses its last character
BadPadding ==
    /\ cop.op = "encrypt"
    /\ cop.scheme \in TextSchemes
    /\ cop' = [cop EXCEPT !.op = "tamper"]
    /\ cwire' = [cwire EXCEPT ![1].padded = FALSE]
    /\ UNCHANGED <<cplain, cresult>>
    /\ UNCHANGED nonCipherVars

\* decrypt(data) under the key dkey: item by item
Decrypt(dkey) ==
    /\ cop.op \in {"encrypt", "tamper"}
    /\ cop' = [cop EXCEPT !.op = "decrypt", !.dkey = dkey]
    /\ cresult' = [j \in 1..Len(cwire) |-> DecryptItem(cop.scheme, dkey, cwire[j])]
    /\ UNCHANGED <<cplain, cwire>>
    /\ UNCHANGED nonCipherVars

CipherNext ==
    \/ \E scheme \in ByteSchemes \cup {"session_aesgcm", "session_legacy"},
          key \in CipherKeys, batch \in Batches : Encrypt(scheme, key, batch)
    \/ \E master \in CipherKeys, k \in DataKeys : EncryptKey(master, k)
    \/ \E j \in 1..MaxBatch, pos \in 1..200, m \in {1, 128} : FlipByte(j, pos, m)
    \/ \E j \in 1..MaxBatch, n \in 0..200 : Truncate(j, n)
    \/ StrayCharacter
    \/ BadPadding
    \/ \E dkey \in CipherKeys : Decrypt(dkey)

\* ------------------------------------- the encryption schemes: the claims

\* what was encrypted as item j, as EncryptItem takes it
PlainArg(j) ==
    IF cop.scheme = "keywrap" THEN LitsId(cplain[j].e, KEY_SIZE) ELSE cplain[j]

\* the possible plaintexts of the scheme
PlainArgs == IF cop.scheme = "keywrap" THEN DataKeys ELSE PyItems

\* w is what an encryption under the decrypting key gives, in valid base64
Genuine(w) ==
    \E n \in Nonces, e \in Ephemerals, x \in PlainArgs :
        w = EncryptItem(cop.scheme, cop.dkey, n, e, x)

\* what json.loads(json.dumps(x)) is
Reloaded(x) == IF x.t = "bytes" THEN x ELSE JsonLoads(Encode(Dumps(x)))

\* C13: a decryption returns one result per item; an item that is not a
\* genuine encryption under the decrypting key (it was cut, emptied, made
\* under another key, had a byte changed, is not valid base64, or has a
\* changed version byte) gives None, and the other items are decrypted.
C13_MalformedGivesNone ==
    cop.op = "decrypt"
        => /\ Len(cresult) = Len(cwire)
           /\ \A j \in 1..Len(cwire) :
                 IF Genuine(cwire[j])
                 THEN cresult[j] = Reloaded(cplain[j])
                 ELSE cresult[j] = NoneItem

\* C14: decrypting, under the same key, what encrypt produced for a
\* JSON-compatible item gives the item back, for the three schemes and for
\* SessionEncryption; unwrapping a wrapped 32-byte key gives the key back.
C14_RoundTrip ==
    (cop.op = "decrypt" /\ cop.dkey = cop.key)
        => \A j \in 1..Len(cwire) :
              (/\ cwire[j] = EncryptItem(cop.scheme, cop.key, 1 + (j % 2), 6 + (j % 2),
                                         PlainArg(j))
               /\ cplain[j].t = "bytes" \/ JsonCompatible(cplain[j]))
                  => cresult[j] = cplain[j]

\* C14 witness: a batch of MaxBatch items, the first a dict holding a list,
\* went through AES-GCM and came back as it was.
C14_Witness ==
    /\ cop.op = "decrypt"
    /\ cop.scheme = "aesgcm"
    /\ cop.dkey = cop.key
    /\ Len(cplain) = MaxBatch
    /\ cplain[1].t = "dict"
    /\ cresult = cplain

\* ------------------------------------------------------------- derive_key
\* the longest path
MaxPath == 2
\* master secrets, usage labels ("u", "v", "u\0") and path elements ("a",
\* "b", ""), as character codes
Masters == {<<1>>, <<2>>}
Usages == {<<117>>, <<118>>, <<117, 0>>}
Indexes == {<<97>>, <<98>>, <<>>}
Paths == UNION {[1..n -> Indexes] : n \in 0..MaxPath}

\* " Master Seed"
MasterSeed == <<32, 77, 97, 115, 116, 101, 114, 32, 83, 101, 101, 100>>

\* a key as HMAC uses it: one shorter than the block is padded with zero
\* bytes, so zero bytes at its end do not count
RECURSIVE HmacKey(_)
HmacKey(k) ==
    IF k # <<>> /\ k[Len(k)] = 0 THEN HmacKey(SubSeq(k, 1, Len(k) - 1)) ELSE k

\* hmac.new(key, msg, hashlib.sha512).digest(): a value the model does not
\* compute, written as the text "(key|msg)"; distinct (key, msg) give
\* distinct digests. I[:32] and I[32:] are written "L..." and "R...".
Hmac(key, msg) == <<0 - 1>> \o HmacKey(key) \o <<0 - 2>> \o msg \o <<0 - 3>>
Left(I) == <<0 - 4>> \o I
Right(I) == <<0 - 5>> \o I

DeriveDataNoIndex(index) == <<0>>

\* data = b"\x00" + index.encode()
DeriveData(index) == <<0>> \o index

\* derive_key's loop: from the digest I, over the rest of the path
RECURSIVE DeriveLoop(_, _)
DeriveLoop(I, path) ==
    IF path = <<>> THEN Left(I)
    ELSE DeriveLoop(Hmac(Right(I), DeriveData(path[1])), Tail(path))

\* derive_key(master, usage, path)
derive_key(master, usage, path) == DeriveLoop(Hmac(usage \o MasterSeed, master), path)

DeriveInit ==
    /\ dIn = <<>>
    /\ dOut = <<>>

\* two calls of derive_key
DeriveKeys(in1, in2) ==
    /\ dIn = <<>>
    /\ dIn' = <<in1, in2>>
    /\ dOut' = <<derive_key(in1.master, in1.usage, in1.path),
                 derive_key(in2.master, in2.usage, in2.path)>>
    /\ UNCHANGED nonDeriveVars

DeriveNext ==
    \E in1 \in [master : Masters, usage : Usages, path : Paths],
       in2 \in [master : Masters, usage : Usages, path : Paths] : DeriveKeys(in1, in2)

\* ------------------------------------------------- derive_key: the claims

\* C15: equal arguments give equal keys; with the same master, the keys
\* differ when the usage labels differ or the paths differ (other order,
\* proper prefix); the empty path gives the first-level key, and a path
\* with one more element gives the key of one more HMAC round keyed by the
\* chain code.
C15_DeriveKeyDeterministic ==
    dIn # <<>>
        => /\ dIn[1] = dIn[2] => dOut[1] = dOut[2]
           /\ (dIn[1].master = dIn[2].master /\ dIn[1] # dIn[2]) => dOut[1] # dOut[2]
           /\ dIn[1].path = <<>>
                 => dOut[1] = Left(Hmac(dIn[1].usage \o MasterSeed, dIn[1].master))
           /\ (/\ dIn[1].master = dIn[2].master
               /\ dIn[1].usage = dIn[2].usage
               /\ Len(dIn[2].path) = Len(dIn[1].path) + 1
               /\ SubSeq(dIn[2].path, 1, Len(dIn[1].path)) = dIn[1].path)
                 => dOut[2] = Left(Hmac(Right(Tail(dOut[1])),
                                        <<0>> \o dIn[2].path[Len(dIn[2].path)]))

\* C15 witness: the same elements in another order gave another key.
C15_Witness ==
    /\ dIn # <<>>
    /\ dIn[1].master = dIn[2].master
    /\ dIn[1].usage = dIn[2].usage
    /\ dIn[1].path = <<<<97>>, <<98>>>>
    /\ dIn[2].path = <<<<98>>, <<97>>>>
    /\ dOut[1] # dOut[2]

(***************************************************************************)
(* PeerRegistry (mesh/peers.py), called method by method: register,        *)
(* unregister and set_active in any order, with get, list_all and names    *)
(* read off the registry after each call.                                  *)
(***************************************************************************)

PeerSessions == {"s1", "s2"}

RegistryAgentTypes == {"opencode", "happy"}

\* the peers a caller may hand to register
RegistryPeers ==
    {Peer(n, t, s, a) : n \in PeerNames, t \in RegistryAgentTypes,
                        s \in PeerSessions, a \in BOOLEAN}

\* what get returns for a name that is not registered
NoPeer == Peer("none", "none", "none", FALSE)

NoCall == [op |-> "none", name |-> "none", peer |-> NoPeer, flag |-> FALSE,
           result |-> FALSE, list |-> <<>>]

RegistryInit ==
    /\ regOp = NoCall
    /\ regLast = [n \in PeerNames |-> NoPeer]

\* PeerRegistry.get on the registry ps: self._peers.get(name)
GetOrNone(ps, name) == IF name \in Names(ps) THEN Get(ps, name) ELSE NoPeer

\* PeerRegistry.get
get(name) == GetOrNone(peers, name)

\* PeerRegistry.list_all: list(self._peers.values())
list_all == peers

\* PeerRegistry.names: list(self._peers.keys())
names == [i \in 1..Len(peers) |-> peers[i].name]

\* registry.register(peer); the list it returns is the registry's values
RegistryRegister(peer) ==
    /\ peer.name \in Names(peers) \/ Len(peers) < MaxPeers
    /\ peers' = Register(peers, peer)
    /\ regOp' = [NoCall EXCEPT !.op = "register", !.name = peer.name, !.peer = peer,
                               !.result = TRUE, !.list = peers']
    /\ regLast' = [regLast EXCEPT ![peer.name] = peer]
    /\ UNCHANGED <<happyCreds, happyTransport, opencodeTransport, askVars, broadcastVars>>
    /\ UNCHANGED nonPeerVars

\* registry.unregister(name)
RegistryUnregister(name) ==
    /\ peers' = IF name \in Names(peers) THEN Unregister(peers, name) ELSE peers
    /\ regOp' = [NoCall EXCEPT !.op = "unregister", !.name = name,
                               !.result = (name \in Names(peers))]
    /\ regLast' = [regLast EXCEPT ![name] = NoPeer]
    /\ UNCHANGED <<happyCreds, happyTransport, opencodeTransport, askVars, broadcastVars>>
    /\ UNCHANGED nonPeerVars

\* registry.set_active(name, is_active)
RegistrySetActive(name, is_active) ==
    /\ peers' = IF name \in Names(peers) THEN SetActive(peers, name, is_active) ELSE peers
    /\ regOp' = [NoCall EXCEPT !.op = "set_active", !.name = name, !.flag = is_active,
                               !.result = (name \in Names(peers))]
    /\ regLast' = IF regLast[name] = NoPeer THEN regLast
                  ELSE [regLast EXCEPT ![name].is_active = is_active]
    /\ UNCHANGED <<happyCreds, happyTransport, opencodeTransport, askVars, broadcastVars>>
    /\ UNCHANGED nonPeerVars

PeerRegistryNext ==
    \/ \E peer \in RegistryPeers : RegistryRegister(peer)
    \/ \E name \in PeerNames : RegistryUnregister(name)
    \/ \E name \in PeerNames, is_active \in BOOLEAN : RegistrySetActive(name, is_active)

\* C16: the registry holds at most one peer per name; get(name) is the peer
\* most recently registered under that name and not unregistered since (every
\* field of it, the active flag as last set), or nothing; list_all and names
\* hold exactly these peers and names, and register returns that list.
C16_OnePeerPerName ==
    /\ \A i, j \in 1..Len(list_all) : list_all[i].name = list_all[j].name => i = j
    /\ \A n \in PeerNames : get(n) = regLast[n]
    /\ {list_all[i] : i \in 1..Len(list_all)} = {regLast[n] : n \in PeerNames} \ {NoPeer}
    /\ {names[i] : i \in 1..Len(names)} = {n \in PeerNames : regLast[n] # NoPeer}
    /\ Len(names) = Cardinality({n \in PeerNames : regLast[n] # NoPeer})
    /\ regOp.op = "register" => regOp.list = list_all /\ get(regOp.name) = regOp.peer

\* C16 witness: a name registered again while another peer is registered: the
\* new peer, with another session id and active flag, took the first place
C16_Witness ==
    /\ regOp.op = "register"
    /\ Len(peers) = 2
    /\ peers[1] = regOp.peer
    /\ regOp.peer.session_id = "s2"
    /\ ~regOp.peer.is_active
    /\ peers[2].is_active

\* C17: unregister(name) and set_active(name, flag) return true exactly when
\* the name was registered; unregister leaves no entry for the name,
\* set_active changes only the active flag of that peer; every other entry
\* is as it was, and for a name that is not registered the registry is as it
\* was.
C17_UnregisterSetActive ==
    [][regOp'.op \in {"unregister", "set_active"} =>
        LET n == regOp'.name
            was == n \in Names(peers)
        IN /\ regOp'.result = was
           /\ \A m \in PeerNames \ {n} : GetOrNone(peers', m) = get(m)
           /\ ~was => peers' = peers
           /\ regOp'.op = "unregister" =>
                /\ GetOrNone(peers', n) = NoPeer
                /\ Len(peers') = Len(peers) - (IF was THEN 1 ELSE 0)
           /\ regOp'.op = "set_active" /\ was =>
                /\ GetOrNone(peers', n) = [get(n) EXCEPT !.is_active = regOp'.flag]
                /\ names' = names]_vars

\* C17 witness: set_active(name, false) returned true with two peers
\* registered, and the other peer is still active
C17_Witness ==
    /\ regOp.op = "set_active"
    /\ regOp.result
    /\ ~regOp.flag
    /\ Len(peers) = 2
    /\ \E i, j \in 1..2 :
          /\ peers[i].name = regOp.name
          /\ ~peers[i].is_active
          /\ j # i
          /\ peers[j].is_active

(***************************************************************************)
(* The message factories: the class methods of bus.Message and the create  *)
(* methods of protocol.messages. uuid4() returns a value it never returned *)
(* before: the n-th call returns n.                                        *)
(***************************************************************************)

MaxBuilt == 2

FactoryPeers == {"frontend", "backend"}

FactoryTexts == {"t1", "t2"}

\* the correlation ids a caller passes to a response factory
GivenCids == {100, 101}

\* None, for a peer name
NoPeerName == "none"

FactoryInit ==
    /\ uuids = 0
    /\ busBuilt = <<>>
    /\ protoBuilt = <<>>

\* the dataclass bus.Message; correlation_id defaults to None
Message(id, type, source, target, content, correlation_id) ==
    [id |-> id, type |-> type, source |-> source, target |-> target,
     content |-> content, correlation_id |-> correlation_id]

\* a call of a factory: the correlation id it was given (NoCid when the
\* factory takes none) and the message it returned
Built(given, msg) == [given |-> given, msg |-> msg]

\* Message.query: msg_id = str(uuid4()); id = msg_id, correlation_id = msg_id
MessageQuery(source, target, content) ==
    /\ Len(busBuilt) + Len(protoBuilt) < MaxBuilt
    /\ uuids' = uuids + 1
    /\ busBuilt' = Append(busBuilt,
          Built(NoCid, Message(uuids + 1, "QUERY", source, target, content, uuids + 1)))
    /\ UNCHANGED protoBuilt
    /\ UNCHANGED nonFactoryVars

\* Message.response
MessageResponse(source, target, content, correlation_id) ==
    /\ Len(busBuilt) + Len(protoBuilt) < MaxBuilt
    /\ uuids' = uuids + 1
    /\ busBuilt' = Append(busBuilt,
          Built(correlation_id,
                Message(uuids + 1, "RESPONSE", source, target, content, correlation_id)))
    /\ UNCHANGED protoBuilt
    /\ UNCHANGED nonFactoryVars

\* Message.notification
MessageNotification(source, target, content) ==
    /\ Len(busBuilt) + Len(protoBuilt) < MaxBuilt
    /\ uuids' = uuids + 1
    /\ busBuilt' = Append(busBuilt,
          Built(NoCid, Message(uuids + 1, "NOTIFICATION", source, target, content, NoCid)))
    /\ UNCHANGED protoBuilt
    /\ UNCHANGED nonFactoryVars

\* Message.broadcast: target=None
MessageBroadcast(source, content) ==
    /\ Len(busBuilt) + Len(protoBuilt) < MaxBuilt
    /\ uuids' = uuids + 1
    /\ busBuilt' = Append(busBuilt,
          Built(NoCid, Message(uuids + 1, "BROADCAST", source, NoPeerName, content, NoCid)))
    /\ UNCHANGED protoBuilt
    /\ UNCHANGED nonFactoryVars

\* the pydantic model protocol.messages.Message, every field given
ProtocolMessage(id, type, from_peer, to_peer, payload, correlation_id) ==
    [id |-> id, type |-> type, from_peer |-> from_peer, to_peer |-> to_peer,
     payload |-> payload, correlation_id |-> correlation_id]

\* QueryMessage.create: cls(from_peer, to_peer, payload); id and
\* correlation_id each take their own default_factory, a call of uuid4()
QueryMessageCreate(from_peer, to_peer, text) ==
    /\ Len(busBuilt) + Len(protoBuilt) < MaxBuilt
    /\ uuids' = uuids + 2
    /\ protoBuilt' = Append(protoBuilt,
          Built(NoCid, ProtocolMessage(uuids + 1, "query", from_peer, to_peer,
                                       [text |-> text], uuids + 2)))
    /\ UNCHANGED busBuilt
    /\ UNCHANGED nonFactoryVars

\* ResponseMessage.create
ResponseMessageCreate(from_peer, to_peer, text, correlation_id, success) ==
    /\ Len(busBuilt) + Len(protoBuilt) < MaxBuilt
    /\ uuids' = uuids + 1
    /\ protoBuilt' = Append(protoBuilt,
          Built(correlation_id,
                ProtocolMessage(uuids + 1, "response", from_peer, to_peer,
                                [text |-> text, success |-> success], correlation_id)))
    /\ UNCHANGED busBuilt
    /\ UNCHANGED nonFactoryVars

\* NotificationMessage.create: correlation_id keeps the default None
NotificationMessageCreate(from_peer, to_peer, text) ==
    /\ Len(busBuilt) + Len(protoBuilt) < MaxBuilt
    /\ uuids' = uuids + 1
    /\ protoBuilt' = Append(protoBuilt,
          Built(NoCid, ProtocolMessage(uuids + 1, "notification", from_peer, to_peer,
                                       [text |-> text], NoCid)))
    /\ UNCHANGED busBuilt
    /\ UNCHANGED nonFactoryVars

\* BroadcastMessage.create: to_peer keeps the default None
BroadcastMessageCreate(from_peer, text) ==
    /\ Len(busBuilt) + Len(protoBuilt) < MaxBuilt
    /\ uuids' = uuids + 1
    /\ protoBuilt' = Append(protoBuilt,
          Built(NoCid, ProtocolMessage(uuids + 1, "broadcast", from_peer, NoPeerName,
                                       [text |-> text], NoCid)))
    /\ UNCHANGED busBuilt
    /\ UNCHANGED nonFactoryVars

FactoryNext ==
    \/ \E source, target \in FactoryPeers, content \in FactoryTexts :
          \/ MessageQuery(source, target, content)
          \/ MessageNotification(source, target, content)
          \/ QueryMessageCreate(source, target, content)
          \/ NotificationMessageCreate(source, target, content)
          \/ \E correlation_id \in GivenCids :
                \/ MessageResponse(source, target, content, correlation_id)
                \/ \E success \in BOOLEAN :
                      ResponseMessageCreate(source, target, content, correlation_id, success)
    \/ \E source \in FactoryPeers, content \in FactoryTexts :
          \/ MessageBroadcast(source, content)
          \/ BroadcastMessageCreate(source, content)

\* the messages built so far by both families of factories: type (lower
\* case), id, target, correlation id and the correlation id given
BuiltViews ==
    {[type |-> IF b.msg.type = "QUERY" THEN "query"
               ELSE IF b.msg.type = "RESPONSE" THEN "response"
               ELSE IF b.msg.type = "NOTIFICATION" THEN "notification"
               ELSE "broadcast",
      id |-> b.msg.id, target |-> b.msg.target,
      correlation_id |-> b.msg.correlation_id, given |-> b.given] :
        b \in {busBuilt[i] : i \in 1..Len(busBuilt)}}
    \cup
    {[type |-> b.msg.type, id |-> b.msg.id, target |-> b.msg.to_peer,
      correlation_id |-> b.msg.correlation_id, given |-> b.given] :
        b \in {protoBuilt[i] : i \in 1..Len(protoBuilt)}}

\* C18: every Query built by a factory carries a correlation_id equal to its
\* own id (no factory takes one for a Query), every Response carries the
\* correlation_id it was created with, every Notification has none, and
\* every Broadcast has a null target.
C18_FactoryCorrelation ==
    \A m \in BuiltViews :
        /\ m.type = "query" => m.correlation_id = m.id
        /\ m.type = "response" => m.correlation_id = m.given
        /\ m.type = "notification" => m.correlation_id = NoCid
        /\ m.type = "broadcast" => m.target = NoPeerName

(***************************************************************************)
(* The relay server (relay/server.py): the socket.io event handlers        *)
(* connect, disconnect, register, unregister, message and response over    *)
(* the module's dicts peers, user_peers and pending_responses. A handler   *)
(* has no await between its first read and its last write of the dicts,    *)
(* so each event is one step. A sid names one connection and is never      *)
(* given to a second one.                                                  *)
(***************************************************************************)

MaxRecorded == 2

Sids == {"c1", "c2"}

\* the users the api keys of the relay belong to
RelayUsers == {"u1", "u2"}

RelayNames == {"a", "b"}

\* the correlation ids a client puts in its events
RelayCids == {"x", "y"}

NoSid == "none"

\* a field the event does not carry (data.get gives None)
Missing == "none"

NoPeerInfo == [name |-> "none", user_id |-> "none"]

NoEmit == [event |-> "none", to |-> NoSid, room |-> "none", correlation_id |-> Missing]

NoEvent == [kind |-> "none", sid |-> NoSid, correlation_id |-> Missing,
            ret |-> "none", emit |-> NoEmit]

RelayInit ==
    /\ sioSessions = [s \in Sids |-> "none"]
    /\ relayPeers = [s \in Sids |-> NoPeerInfo]
    /\ user_peers = [u \in RelayUsers |-> [n \in RelayNames |-> NoSid]]
    /\ pending_responses = [c \in RelayCids |-> NoSid]
    /\ relayLast = NoEvent
    /\ recorded = <<>>
    /\ pendingRec = [c \in RelayCids |-> 0]
    /\ forwards = <<>>

Connected(sid) == sioSessions[sid] \in RelayUsers

\* sio.emit(event, ..., to=sid)
EmitTo(event, sid, correlation_id) ==
    [event |-> event, to |-> sid, room |-> "none", correlation_id |-> correlation_id]

\* sio.emit(event, ..., room=get_user_room(user_id), skip_sid=sid)
EmitRoom(event, user_id) ==
    [event |-> event, to |-> NoSid, room |-> user_id, correlation_id |-> Missing]

Event(kind, sid, correlation_id, ret, emit) ==
    [kind |-> kind, sid |-> sid, correlation_id |-> correlation_id, ret |-> ret, emit |-> emit]

\* connect with an api key that validate_api_key accepts for user_id
connect(sid, user_id) ==
    /\ sioSessions[sid] = "none"
    /\ sioSessions' = [sioSessions EXCEPT ![sid] = user_id]
    /\ relayLast' = Event("connect", sid, Missing, "accepted", NoEmit)
    /\ UNCHANGED <<relayPeers, user_peers, pending_responses, recorded, pendingRec, forwards>>
    /\ UNCHANGED nonRelayVars

\* connect without auth or with a key validate_api_key rejects: return False
ConnectRefused(sid) ==
    /\ sioSessions[sid] = "none"
    /\ sioSessions' = [sioSessions EXCEPT ![sid] = "closed"]
    /\ relayLast' = Event("connect", sid, Missing, "refused", NoEmit)
    /\ UNCHANGED <<relayPeers, user_peers, pending_responses, recorded, pendingRec, forwards>>
    /\ UNCHANGED nonRelayVars

\* user_peers after del user_peers[user_id][peer_name]
DelUserPeer(up, user_id, peer_name) == [up EXCEPT ![user_id][peer_name] = NoSid]

\* disconnect
disconnect(sid) ==
    /\ Connected(sid)
    /\ sioSessions' = [sioSessions EXCEPT ![sid] = "closed"]
    /\ IF relayPeers[sid] = NoPeerInfo
       THEN /\ relayLast' = Event("disconnect", sid, Missing, "none", NoEmit)
            /\ UNCHANGED <<relayPeers, user_peers>>
       ELSE /\ relayPeers' = [relayPeers EXCEPT ![sid] = NoPeerInfo]
            /\ user_peers' = DelUserPeer(user_peers, relayPeers[sid].user_id,
                                         relayPeers[sid].name)
            /\ relayLast' = Event("disconnect", sid, Missing, "none",
                                  EmitRoom("peer_left", relayPeers[sid].user_id))
    /\ UNCHANGED <<pending_responses, recorded, pendingRec, forwards>>
    /\ UNCHANGED nonRelayVars

\* register
RelayRegister(sid, name) ==
    /\ Connected(sid)
    /\ relayPeers' = [relayPeers EXCEPT ![sid] = [name |-> name, user_id |-> sioSessions[sid]]]
    /\ user_peers' = [user_peers EXCEPT ![sioSessions[sid]][name] = sid]
    /\ relayLast' = Event("register", sid, Missing, "registered",
                          EmitRoom("peer_joined", sioSessions[sid]))
    /\ UNCHANGED <<sioSessions, pending_responses, recorded, pendingRec, forwards>>
    /\ UNCHANGED nonRelayVars

\* unregister
RelayUnregister(sid) ==
    /\ Connected(sid)
    /\ IF relayPeers[sid] = NoPeerInfo
       THEN /\ relayLast' = Event("unregister", sid, Missing, "not_registered", NoEmit)
            /\ UNCHANGED <<relayPeers, user_peers>>
       ELSE /\ relayPeers' = [relayPeers EXCEPT ![sid] = NoPeerInfo]
            /\ user_peers' = DelUserPeer(user_peers, relayPeers[sid].user_id,
                                         relayPeers[sid].name)
            /\ relayLast' = Event("unregister", sid, Missing, "unregistered",
                                  EmitRoom("peer_left", relayPeers[sid].user_id))
    /\ UNCHANGED <<sioSessions, pending_responses, recorded, pendingRec, forwards>>
    /\ UNCHANGED nonRelayVars

\* message: what the handler returns before it builds the Message, "sent" otherwise
MessageReturn(sid, to_peer) ==
    IF relayPeers[sid] = NoPeerInfo THEN "not_registered"
    ELSE IF to_peer = Missing THEN "missing_target"
    ELSE IF user_peers[relayPeers[sid].user_id][to_peer] = NoSid THEN "peer_not_found"
    ELSE "sent"

\* message
message(sid, to_peer, correlation_id) ==
    /\ Connected(sid)
    /\ LET ret == MessageReturn(sid, to_peer)
           records == ret = "sent" /\ correlation_id # Missing
       IN /\ records => Len(recorded) < MaxRecorded
          /\ pending_responses' =
                IF records THEN [pending_responses EXCEPT ![correlation_id] = sid]
                ELSE pending_responses
          /\ recorded' = IF records
                         THEN Append(recorded, [sid |-> sid, correlation_id |-> correlation_id])
                         ELSE recorded
          /\ pendingRec' = IF records
                           THEN [pendingRec EXCEPT ![correlation_id] = Len(recorded) + 1]
                           ELSE pendingRec
          /\ relayLast' =
                Event("message", sid, correlation_id, ret,
                      IF ret = "sent"
                      THEN EmitTo("message", user_peers[relayPeers[sid].user_id][to_peer],
                                  correlation_id)
                      ELSE NoEmit)
    /\ UNCHANGED <<sioSessions, relayPeers, user_peers, forwards>>
    /\ UNCHANGED nonRelayVars

\* a response handler that reads pending_responses[correlation_id] and leaves it there
KeepPending(pending, correlation_id) == pending

\* pending_responses.pop(correlation_id): the dict afterwards
PopPending(pending, correlation_id) == [pending EXCEPT ![correlation_id] = NoSid]

\* response: what the handler returns
ResponseReturn(sid, correlation_id) ==
    IF correlation_id = Missing THEN "missing_correlation_id"
    ELSE IF pending_responses[correlation_id] = NoSid THEN "no_pending_request"
    ELSE IF relayPeers[sid] = NoPeerInfo THEN "not_registered"
    ELSE "sent"

\* response
response(sid, correlation_id) ==
    /\ Connected(sid)
    /\ LET ret == ResponseReturn(sid, correlation_id)
           popped == ret \in {"not_registered", "sent"}
       IN /\ pending_responses' =
                IF popped THEN PopPending(pending_responses, correlation_id)
                ELSE pending_responses
          /\ pendingRec' =
                IF popped /\ pending_responses'[correlation_id] = NoSid
                THEN [pendingRec EXCEPT ![correlation_id] = 0]
                ELSE pendingRec
          /\ forwards' =
                IF ret = "sent"
                THEN Append(forwards, [correlation_id |-> correlation_id,
                                       to |-> pending_responses[correlation_id],
                                       rec |-> pendingRec[correlation_id]])
                ELSE forwards
          /\ relayLast' =
                Event("response", sid, correlation_id, ret,
                      IF ret = "sent"
                      THEN EmitTo("response", pending_responses[correlation_id],
                                  correlation_id)
                      ELSE NoEmit)
    /\ UNCHANGED <<sioSessions, relayPeers, user_peers, recorded>>
    /\ UNCHANGED nonRelayVars

\* the connections of one user: what becomes of a correlation_id does not
\* turn on whose peers are looked up
RelayNext ==
    \/ \E sid \in Sids, user_id \in {"u1"} : connect(sid, user_id)
    \/ \E sid \in Sids : ConnectRefused(sid)
    \/ \E sid \in Sids : disconnect(sid)
    \/ \E sid \in Sids, name \in RelayNames : RelayRegister(sid, name)
    \/ \E sid \in Sids : RelayUnregister(sid)
    \/ \E sid \in Sids, to_peer \in RelayNames \cup {Missing},
          correlation_id \in RelayCids \cup {Missing} : message(sid, to_peer, correlation_id)
    \/ \E sid \in Sids, correlation_id \in RelayCids \cup {Missing} :
          response(sid, correlation_id)

\* the connections of several users; one query recorded
MaxUserQueries == 1

RelayUsersNext ==
    \/ \E sid \in Sids, user_id \in RelayUsers : connect(sid, user_id)
    \/ \E sid \in Sids : ConnectRefused(sid)
    \/ \E sid \in Sids : disconnect(sid)
    \/ \E sid \in Sids, name \in RelayNames : RelayRegister(sid, name)
    \/ \E sid \in Sids : RelayUnregister(sid)
    \/ \E sid \in Sids, to_peer \in RelayNames \cup {Missing},
          correlation_id \in RelayCids \cup {Missing} :
             /\ Len(recorded) < MaxUserQueries
             /\ message(sid, to_peer, correlation_id)
    \/ \E sid \in Sids, correlation_id \in RelayCids \cup {Missing} :
          response(sid, correlation_id)

\* C19 as stated: once a response event for a correlation_id has been
\* forwarded, no further response event with that correlation_id is
\* forwarded.
C19_OneForwardPerCorrelationId ==
    \A i, j \in 1..Len(forwards) :
        forwards[i].correlation_id = forwards[j].correlation_id => i = j

\* C19: each recorded query gives rise to at most one forwarded response; a
\* response is forwarded only to the connection whose message event recorded
\* its correlation_id; and a response event whose correlation_id has no
\* recorded query waiting (none recorded, or none since the last response
\* for it was taken) returns no_pending_request and emits nothing.
C19_OneForwardPerRecordedQuery ==
    [][/\ \A i, j \in 1..Len(forwards') : forwards'[i].rec = forwards'[j].rec => i = j
       /\ \A i \in 1..Len(forwards') :
             /\ forwards'[i].rec \in 1..Len(recorded')
             /\ recorded'[forwards'[i].rec] =
                   [sid |-> forwards'[i].to, correlation_id |-> forwards'[i].correlation_id]
       /\ (relayLast'.kind = "response" /\ relayLast'.ret = "sent") =>
             /\ relayLast'.emit = EmitTo("response", pending_responses[relayLast'.correlation_id],
                                         relayLast'.correlation_id)
             /\ forwards' = Append(forwards, [correlation_id |-> relayLast'.correlation_id,
                                              to |-> relayLast'.emit.to,
                                              rec |-> pendingRec[relayLast'.correlation_id]])
       /\ (/\ relayLast'.kind = "response"
           /\ relayLast'.correlation_id # Missing
           /\ \/ \A k \in 1..Len(recorded) :
                    recorded[k].correlation_id # relayLast'.correlation_id
              \/ \E i \in 1..Len(forwards) :
                    /\ forwards[i].correlation_id = relayLast'.correlation_id
                    /\ \A k \in (forwards[i].rec + 1)..Len(recorded) :
                          recorded[k].correlation_id # relayLast'.correlation_id) =>
             /\ relayLast'.ret = "no_pending_request"
             /\ relayLast'.emit = NoEmit
             /\ forwards' = forwards]_vars

\* C19 witness: a correlation_id recorded by two message events, each answered
\* by one forwarded response, and a further response event that found nothing
\* waiting
C19_Witness ==
    /\ Len(forwards) = 2
    /\ forwards[1].correlation_id = forwards[2].correlation_id
    /\ forwards[1].rec = 1
    /\ forwards[2].rec = 2
    /\ relayLast.kind = "response"
    /\ relayLast.correlation_id = forwards[1].correlation_id
    /\ relayLast.ret = "no_pending_request"

\* C33: every directory entry is live and accurate: user_peers[u][n] = s
\* implies that connection s is registered in peers with user_id u and peer
\* name n.
C33_DirectoryLiveAndAccurate ==
    \A u \in RelayUsers, n \in RelayNames :
        user_peers[u][n] # NoSid
            => relayPeers[user_peers[u][n]] = [name |-> n, user_id |-> u]

\* C34: the disconnect or the unregister of a connection leaves the peer
\* record of every other connection and every directory entry that maps a
\* name to another connection as they were.
C34_RemovesOnlyOwnRegistration ==
    [][\A sid \in Sids :
        (relayLast'.kind \in {"disconnect", "unregister"} /\ relayLast'.sid = sid)
            => /\ \A t \in Sids \ {sid} : relayPeers'[t] = relayPeers[t]
               /\ \A u \in RelayUsers, n \in RelayNames :
                     user_peers[u][n] \notin {sid, NoSid}
                         => user_peers'[u][n] = user_peers[u][n]
      ]_vars

\* C35: a response event that follows the message event carrying its
\* correlation_id is forwarded only if the connection that sends it is the
\* one the message was emitted to, a connection of the querier's user.
C35_ResponseFromAddressee ==
    [][(/\ relayLast.kind = "message" /\ relayLast.ret = "sent"
        /\ relayLast.correlation_id # Missing
        /\ relayLast'.kind = "response" /\ relayLast'.ret = "sent"
        /\ relayLast'.correlation_id = relayLast.correlation_id)
            => /\ relayLast'.sid = relayLast.emit.to
               /\ sioSessions[relayLast'.sid] = sioSessions[relayLast.sid]
      ]_vars

\* C36: a message event of a connection of user U is emitted only to a
\* connection that is registered, under U; when the sender is not
\* registered, the target is missing, or the directory of U holds no
\* registered connection for the target name, the event returns an error,
\* emits nothing and leaves the pending table as it was.
C36_MessageWithinUser ==
    [][\A sid \in Sids, to_peer \in RelayNames \cup {Missing},
          correlation_id \in RelayCids \cup {Missing} :
        message(sid, to_peer, correlation_id)
            => /\ relayLast'.emit # NoEmit
                     => /\ relayPeers[relayLast'.emit.to] # NoPeerInfo
                        /\ relayPeers[relayLast'.emit.to].user_id = sioSessions[sid]
               /\ (\/ relayPeers[sid] = NoPeerInfo
                   \/ to_peer = Missing
                   \/ user_peers[sioSessions[sid]][to_peer] = NoSid
                   \/ relayPeers[user_peers[sioSessions[sid]][to_peer]] = NoPeerInfo)
                     => /\ relayLast'.ret # "sent"
                        /\ relayLast'.emit = NoEmit
                        /\ pending_responses' = pending_responses
      ]_vars

\* C37: a response event that returns an error leaves the pending table
\* unchanged.
C37_RejectedResponseKeepsPending ==
    [][(relayLast'.kind = "response" /\ relayLast'.ret # "sent")
            => pending_responses' = pending_responses
      ]_vars

\* C38: every entry of the pending table names a connection that is still
\* connected.
C38_PendingQuerierConnected ==
    \A c \in RelayCids :
        pending_responses[c] # NoSid => Connected(pending_responses[c])

(***************************************************************************)
(* The api keys of the relay (relay/auth.py): generate_api_key,            *)
(* validate_api_key and revoke_api_key, called one after the other, each   *)
(* loading api_keys.json and saving it back. A key is the sequence of its  *)
(* characters, the token drawn by secrets.token_urlsafe standing as one    *)
(* character; a token is never drawn twice.                                *)
(***************************************************************************)

MaxKeys == 2

MaxCalls == 4

API_KEY_PREFIX == <<"r", "w", "_">>

TokenNames == <<"k1", "k2", "k3", "k4">>

\* the tokens secrets.token_urlsafe returns, in the order drawn
Tokens == {TokenNames[i] : i \in 1..MaxKeys}

AuthUsers == {"user1", "user2"}

\* the keys a caller presents: with the prefix and a token that is or may
\* come to be generated, with a token never generated ("invalid"), a token
\* without the prefix, the prefix cut short, and the empty string
PresentedKeys ==
    {API_KEY_PREFIX \o <<t>> : t \in Tokens \cup {"invalid"}}
    \cup {<<t>> : t \in Tokens}
    \cup {<<"r", "w", t>> : t \in Tokens}
    \cup {<<>>}

\* data["keys"].get(key) when the key is not there; also the None returned
NoKeyData == [key |-> <<>>, user_id |-> "none", name |-> "none", created_at |-> 0,
              last_used |-> 0]

NoAuthCall == [op |-> "none", key |-> <<>>, result |-> NoKeyData, ok |-> FALSE]

AuthInit ==
    /\ keyStore = [k \in PresentedKeys |-> NoKeyData]
    /\ authClock = 0
    /\ authLast = NoAuthCall
    /\ generatedFor = [k \in PresentedKeys |-> "none"]
    /\ revokedKeys = {}

\* str.startswith
StartsWith(s, prefix) == Len(s) >= Len(prefix) /\ SubSeq(s, 1, Len(prefix)) = prefix

\* APIKey(key=key, user_id=user_id, name=name).model_dump(mode="json")
APIKey(key, user_id, name, created_at) ==
    [key |-> key, user_id |-> user_id, name |-> name, created_at |-> created_at,
     last_used |-> 0]

\* a revoke that leaves the entry in data["keys"]
DelKeyKeeps(store, key) == store

\* del data["keys"][key]
DelKey(store, key) == [store EXCEPT ![key] = NoKeyData]

\* generate_api_key
generate_api_key(user_id, name) ==
    /\ authClock < MaxCalls
    /\ Cardinality({k \in PresentedKeys : generatedFor[k] # "none"}) < MaxKeys
    /\ LET n == Cardinality({k \in PresentedKeys : generatedFor[k] # "none"}) + 1
           key == API_KEY_PREFIX \o <<TokenNames[n]>>
           api_key == APIKey(key, user_id, name, authClock + 1)
       IN /\ keyStore' = [keyStore EXCEPT ![key] = api_key]
          /\ generatedFor' = [generatedFor EXCEPT ![key] = user_id]
          /\ authLast' = [op |-> "generate", key |-> key, result |-> api_key, ok |-> TRUE]
    /\ authClock' = authClock + 1
    /\ UNCHANGED revokedKeys
    /\ UNCHANGED nonAuthVars

\* validate_api_key: the APIKey is built before last_used is written
validate_api_key(key) ==
    /\ authClock < MaxCalls
    /\ IF ~StartsWith(key, API_KEY_PREFIX) \/ keyStore[key] = NoKeyData
       THEN /\ authLast' = [op |-> "validate", key |-> key, result |-> NoKeyData,
                            ok |-> FALSE]
            /\ UNCHANGED keyStore
       ELSE /\ authLast' = [op |-> "validate", key |-> key, result |-> keyStore[key],
                            ok |-> TRUE]
            /\ keyStore' = [keyStore EXCEPT ![key].last_used = authClock + 1]
    /\ authClock' = authClock + 1
    /\ UNCHANGED <<generatedFor, revokedKeys>>
    /\ UNCHANGED nonAuthVars

\* revoke_api_key
revoke_api_key(key) ==
    /\ authClock < MaxCalls
    /\ IF keyStore[key] # NoKeyData
       THEN /\ keyStore' = DelKey(keyStore, key)
            /\ revokedKeys' = revokedKeys \cup {key}
            /\ authLast' = [op |-> "revoke", key |-> key, result |-> NoKeyData, ok |-> TRUE]
       ELSE /\ authLast' = [op |-> "revoke", key |-> key, result |-> NoKeyData, ok |-> FALSE]
            /\ UNCHANGED <<keyStore, revokedKeys>>
    /\ authClock' = authClock + 1
    /\ UNCHANGED generatedFor
    /\ UNCHANGED nonAuthVars

AuthNext ==
    \/ \E user_id \in AuthUsers : generate_api_key(user_id, "default")
    \/ \E key \in PresentedKeys : validate_api_key(key)
    \/ \E key \in PresentedKeys : revoke_api_key(key)

\* C20: validate_api_key(k) returns an APIKey carrying the user_id k was
\* generated for exactly when k was produced by generate_api_key and has not
\* been revoked since; for any other key (never generated, revoked, or
\* without the rw_ prefix) it returns None and leaves the key store as it
\* was.
C20_ValidateApiKey ==
    [][authLast'.op = "validate" =>
        LET k == authLast'.key
            valid == generatedFor[k] # "none" /\ k \notin revokedKeys
        IN /\ authLast'.ok <=> valid
           /\ valid => /\ authLast'.result.key = k
                       /\ authLast'.result.user_id = generatedFor[k]
           /\ ~valid => /\ authLast'.result = NoKeyData
                        /\ keyStore' = keyStore]_vars

\* C20 witness: a revoked key was validated and refused while another
\* generated key is still in the store
C20_Witness ==
    /\ authLast.op = "validate"
    /\ authLast.key \in revokedKeys
    /\ ~authLast.ok
    /\ \E k \in PresentedKeys : keyStore[k] # NoKeyData

(***************************************************************************)
(* extract_last_assistant_response, once in session/transcript.py and once *)
(* in hooks/stop_handler.py. A transcript is a file of lines; a line is    *)
(* blank, not JSON, JSON that is not an object, or an entry. A text is the *)
(* sequence of its characters.                                             *)
(***************************************************************************)

MaxLines == 2

Texts == {<<>>, <<"a">>, <<"b">>}

\* a key the JSON object does not have
Absent == "absent"

\* an item of a content list: an object with "type" and maybe "text", or a string
TextPart(text) == [k |-> "dict", type |-> "text", has_text |-> TRUE, text |-> text]

TextPartNoText == [k |-> "dict", type |-> "text", has_text |-> FALSE, text |-> <<>>]

ToolUsePart == [k |-> "dict", type |-> "tool_use", has_text |-> FALSE, text |-> <<>>]

StrPart(text) == [k |-> "str", type |-> Absent, has_text |-> FALSE, text |-> text]

\* the values of "content": a string, a list of parts, an object, or no key;
\* inner holds the content inside an object of type "output"
StrContent(text) == [t |-> "str", s |-> text, parts |-> <<>>, type |-> Absent, inner |-> <<>>]

ListContent(parts) == [t |-> "list", s |-> <<>>, parts |-> parts, type |-> Absent, inner |-> <<>>]

DictContent(type, text) == [t |-> "dict", s |-> text, parts |-> <<>>, type |-> type, inner |-> <<>>]

OutputContent(content) ==
    [t |-> "dict", s |-> <<>>, parts |-> <<>>, type |-> "output", inner |-> <<content>>]

NoContent == [t |-> Absent, s |-> <<>>, parts |-> <<>>, type |-> Absent, inner |-> <<>>]

Contents21 ==
    {StrContent(x) : x \in Texts}
    \cup {ListContent(<<>>), ListContent(<<ToolUsePart>>), ListContent(<<TextPart(<<>>)>>),
          ListContent(<<TextPart(<<"a">>)>>), ListContent(<<TextPart(<<"a">>), TextPart(<<"b">>)>>),
          ListContent(<<TextPartNoText, TextPart(<<"b">>)>>),
          ListContent(<<StrPart(<<"a">>)>>),
          DictContent("text", <<"a">>), OutputContent(StrContent(<<"b">>)), NoContent}

\* a line of the file
BlankLine == [kind |-> "blank", type |-> Absent, message |-> Absent, role |-> Absent,
              content |-> NoContent]

NotJson == [BlankLine EXCEPT !.kind = "garbage"]

\* JSON that json.loads accepts and that is no object, such as 5 or [1, 2]
NotAnObject == [BlankLine EXCEPT !.kind = "nonobject"]

\* {"type": type, "message": {"role": role, "content": content}}; message is
\* "dict", "null" or Absent
Entry(type, msg, role, content) ==
    [kind |-> "entry", type |-> type, message |-> msg, role |-> role, content |-> content]

Lines ==
    {BlankLine, NotJson, NotAnObject,
     Entry("user", "dict", Absent, StrContent(<<"a">>)),
     Entry("assistant", Absent, Absent, NoContent),
     Entry("assistant", "null", Absent, NoContent)}
    \cup {Entry("assistant", "dict", role, c) : role \in {Absent, "assistant"}, c \in Contents21}

Transcripts ==
    {[exists |-> FALSE, lines |-> <<>>]}
    \cup {[exists |-> TRUE, lines |-> l] :
            l \in UNION {[1..n -> Lines] : n \in 0..MaxLines}}

NoneText == [kind |-> "none", text |-> <<>>]

Value(text) == [kind |-> "value", text |-> text]

Raises == [kind |-> "raises", text |-> <<>>]

TranscriptInit ==
    /\ tIn = <<>>
    /\ tOut = [session |-> NoneText, hook |-> NoneText]

\* " ".join(texts)
RECURSIVE Join(_)
Join(texts) ==
    IF Len(texts) = 0 THEN <<>>
    ELSE IF Len(texts) = 1 THEN texts[1]
    ELSE texts[1] \o <<" ">> \o Join(Tail(texts))

\* bool(x) of a str-or-None result
Truthy(r) == r.kind = "value" /\ r.text # <<>>

\* the loop of _extract_text_from_content over a list
RECURSIVE PartTexts(_)
PartTexts(parts) ==
    IF parts = <<>> THEN <<>>
    ELSE LET item == Head(parts)
             rest == PartTexts(Tail(parts))
         IN IF item.k = "dict"
            THEN IF item.type = "text" /\ item.has_text /\ item.text # <<>>
                 THEN <<item.text>> \o rest
                 ELSE rest
            ELSE <<item.text>> \o rest

\* _extract_text_from_content (session/transcript.py)
RECURSIVE extract_text_from_content(_)
extract_text_from_content(content) ==
    IF content.t = "str" THEN Value(content.s)
    ELSE IF content.t = "list"
    THEN IF PartTexts(content.parts) # <<>> THEN Value(Join(PartTexts(content.parts)))
         ELSE NoneText
    ELSE IF content.t = "dict" /\ content.type = "text" THEN Value(content.s)
    ELSE IF content.t = "dict" /\ content.type = "output" /\ content.inner # <<>>
    THEN extract_text_from_content(content.inner[1])
    ELSE NoneText

\* message.get("content", []) : the default is the empty list
ContentOrEmptyList(content) == IF content.t = Absent THEN ListContent(<<>>) ELSE content

\* one pass of the loop of extract_last_assistant_response in
\* session/transcript.py; last is last_assistant_content
SessionStep(last, line) ==
    IF last.kind = "raises" THEN last
    ELSE IF line.kind \in {"blank", "garbage"} THEN last
    ELSE IF line.kind = "nonobject" THEN Raises
    ELSE IF line.type # "assistant" THEN last
    ELSE IF line.message = "null" THEN Raises
    ELSE IF line.role # "assistant" THEN last
    ELSE LET text == extract_text_from_content(ContentOrEmptyList(line.content))
         IN IF Truthy(text) THEN text ELSE last

\* the comprehension of hooks/stop_handler.py: c.get("text", "") for the
\* objects of type "text"
RECURSIVE HookTexts(_)
HookTexts(parts) ==
    IF parts = <<>> THEN <<>>
    ELSE LET c == Head(parts)
             rest == HookTexts(Tail(parts))
         IN IF c.k = "dict" /\ c.type = "text"
            THEN <<IF c.has_text THEN c.text ELSE <<>>>> \o rest
            ELSE rest

\* one pass of the loop of extract_last_assistant_response in hooks/stop_handler.py
HookStep(last, line) ==
    IF last.kind = "raises" THEN last
    ELSE IF line.kind \in {"blank", "garbage"} THEN last
    ELSE IF line.kind = "nonobject" THEN Raises
    ELSE IF line.type # "assistant" THEN last
    ELSE IF line.message = "null" THEN Raises
    ELSE LET content == ContentOrEmptyList(line.content)
         IN IF content.t = "list"
            THEN IF HookTexts(content.parts) # <<>> THEN Value(Join(HookTexts(content.parts)))
                 ELSE last
            ELSE IF content.t = "str" THEN Value(content.s)
            ELSE last

RECURSIVE SessionLoop(_, _)
SessionLoop(last, lines) ==
    IF lines = <<>> THEN last ELSE SessionLoop(SessionStep(last, Head(lines)), Tail(lines))

RECURSIVE HookLoop(_, _)
HookLoop(last, lines) ==
    IF lines = <<>> THEN last ELSE HookLoop(HookStep(last, Head(lines)), Tail(lines))

\* session.transcript.extract_last_assistant_response
session_extract_last_assistant_response(transcript) ==
    IF ~transcript.exists THEN NoneText ELSE SessionLoop(NoneText, transcript.lines)

\* hooks.stop_handler.extract_last_assistant_response
hook_extract_last_assistant_response(transcript) ==
    IF ~transcript.exists THEN NoneText ELSE HookLoop(NoneText, transcript.lines)

\* both functions called on a transcript
ExtractLast(transcript) ==
    /\ tIn = <<>>
    /\ tIn' = <<transcript>>
    /\ tOut' = [session |-> session_extract_last_assistant_response(transcript),
                hook |-> hook_extract_last_assistant_response(transcript)]
    /\ UNCHANGED nonTranscriptVars

TranscriptNext == \E transcript \in Transcripts : ExtractLast(transcript)

\* the lines C21 speaks of: blank or unparsable lines, user entries, and
\* assistant entries {type: assistant, message: {content: ...}} whose
\* content is a string or a list of objects
ClaimedLine(line) ==
    \/ line.kind \in {"blank", "garbage"}
    \/ /\ line.kind = "entry"
       /\ line.message = "dict"
       /\ line.role = Absent
       /\ line.type = "user" \/ line.content.t \in {"str", "list"}
       /\ \A i \in 1..Len(line.content.parts) : line.content.parts[i].k = "dict"

\* the text of an assistant entry as C21 gives it: the string itself, or
\* the text parts joined with spaces; <<>> when it has none
RECURSIVE TextsOf(_)
TextsOf(parts) ==
    IF parts = <<>> THEN <<>>
    ELSE IF Head(parts).type = "text" /\ Head(parts).has_text /\ Head(parts).text # <<>>
    THEN <<Head(parts).text>> \o TextsOf(Tail(parts))
    ELSE TextsOf(Tail(parts))

TextOfEntry(line) ==
    IF line.content.t = "str" THEN line.content.s ELSE Join(TextsOf(line.content.parts))

\* the text of the last assistant entry that has text, None when there is none
RECURSIVE LastWithText(_)
LastWithText(lines) ==
    IF lines = <<>> THEN NoneText
    ELSE LET line == lines[Len(lines)]
         IN IF line.kind = "entry" /\ line.type = "assistant" /\ TextOfEntry(line) # <<>>
            THEN Value(TextOfEntry(line))
            ELSE LastWithText(SubSeq(lines, 1, Len(lines) - 1))

\* C21: for a transcript whose assistant entries have the form {type:
\* assistant, message: {content: ...}}, extract_last_assistant_response
\* (either of the two) returns the text of the last such entry that has text
\* (list content: its text parts joined with spaces; string content: the
\* string itself), skipping user entries and unparsable lines, and None when
\* the file is missing, empty or holds no assistant entry.
C21_ExtractLastAssistant ==
    (tIn # <<>> /\ \A i \in 1..Len(tIn[1].lines) : ClaimedLine(tIn[1].lines[i])) =>
        /\ tOut.session = LastWithText(tIn[1].lines)
        /\ tOut.hook = LastWithText(tIn[1].lines)

(***************************************************************************)
(* SharedState (mesh/state.py): one instance on a path with no file yet.   *)
(* Every operation holds the instance's lock, so operations do not         *)
(* interleave. The file holds what json.dump wrote: json.load gives a list *)
(* back for a tuple.                                                       *)
(***************************************************************************)

StateKeys == {"key1", "key2"}

\* a key that is not in the dict
Unset == [t |-> "unset", s |-> <<>>, e |-> <<>>]

\* the values written: "a", "b", ["a"], the tuple ("a",) and b""
StateValues ==
    {Str(<<97>>), Str(<<98>>), List(<<Str(<<97>>)>>), TupleOf(<<Str(<<97>>)>>),
     BytesItem(<<>>)}

EmptyMap == [k \in StateKeys |-> Unset]

NoFile == [exists |-> FALSE, intact |-> TRUE, data |-> EmptyMap]

NoStateOp == [op |-> "none", key |-> "none", ret |-> FALSE, raised |-> FALSE]

StateInit ==
    /\ sData = EmptyMap
    /\ sFile = NoFile
    /\ sLast = NoStateOp
    /\ sExpected = EmptyMap
    /\ sRaised = FALSE

\* json.dump accepts x: no bytes in it
RECURSIVE Serialisable(_)
Serialisable(x) ==
    /\ x.t # "bytes"
    /\ x.t = "unset" \/ \A j \in 1..Len(x.e) : Serialisable(x.e[j])

\* json.load(json.dump(x)): a tuple comes back as a list
RECURSIVE ToJson(_)
ToJson(x) ==
    IF x.t \in {"list", "tuple"} THEN List([j \in 1..Len(x.e) |-> ToJson(x.e[j])])
    ELSE IF x.t = "dict" THEN Dict([j \in 1..Len(x.e) |-> ToJson(x.e[j])])
    ELSE IF x.t = "pair" THEN Pair(x.s, ToJson(x.e[1]))
    ELSE x

\* a _save that writes nothing
SaveSkipped(file, data) == file

\* SharedState._save: open(path, "w") and json.dump; a value json.dump
\* refuses leaves a truncated file behind
Save(file, data) ==
    IF \A k \in StateKeys : Serialisable(data[k])
    THEN [exists |-> TRUE, intact |-> TRUE, data |-> [k \in StateKeys |-> ToJson(data[k])]]
    ELSE [exists |-> TRUE, intact |-> FALSE, data |-> EmptyMap]

\* SharedState.read()
read == sData

\* SharedState(persist_path).read() of a new instance: _load reads the file
Reopened == IF sFile.exists THEN sFile.data ELSE EmptyMap

\* the operation ends by _save: it raises when json.dump raises
Saved(op, key, ret, data, expected) ==
    /\ sData' = data
    /\ sFile' = Save(sFile, data)
    /\ IF Save(sFile, data).intact
       THEN /\ sLast' = [op |-> op, key |-> key, ret |-> ret, raised |-> FALSE]
            /\ sExpected' = expected
            /\ UNCHANGED sRaised
       ELSE /\ sLast' = [op |-> op, key |-> key, ret |-> FALSE, raised |-> TRUE]
            /\ sRaised' = TRUE
            /\ UNCHANGED sExpected

\* SharedState.write
write(key, value) ==
    /\ Saved("write", key, FALSE, [sData EXCEPT ![key] = value],
             [sExpected EXCEPT ![key] = value])
    /\ UNCHANGED nonStateVars

\* SharedState.delete
delete(key) ==
    /\ IF sData[key] # Unset
       THEN Saved("delete", key, TRUE, [sData EXCEPT ![key] = Unset],
                  [sExpected EXCEPT ![key] = Unset])
       ELSE /\ sLast' = [op |-> "delete", key |-> key, ret |-> FALSE, raised |-> FALSE]
            /\ UNCHANGED <<sData, sFile, sExpected, sRaised>>
    /\ UNCHANGED nonStateVars

\* SharedState.clear
clear ==
    /\ Saved("clear", "none", FALSE, EmptyMap, EmptyMap)
    /\ UNCHANGED nonStateVars

StateNext ==
    \/ \E key \in StateKeys, value \in StateValues : write(key, value)
    \/ \E key \in StateKeys : delete(key)
    \/ clear

\* what C22 says of a state reached by completed operations
StateAgrees ==
    /\ read = sExpected
    /\ sLast.op \in {"write", "clear"} => sFile.exists /\ sFile.intact /\ Reopened = read
    /\ sLast.op = "write" => read[sLast.key] # Unset
    /\ sLast.op = "delete" => read[sLast.key] = Unset
    /\ sLast.op = "clear" => read = EmptyMap

AllJsonCompatible == \A k \in StateKeys : sExpected[k] = Unset \/ JsonCompatible(sExpected[k])

MaxTmuxQueries == 2
TCalls == 1..MaxTmuxQueries
\* a correlation id that no send_query produced
StrayCid == MaxTmuxQueries + 1
\* what _get_claude_session_id returns: the stem of the newest transcript, or None
NoSession == "none"
ClaudeSessions == {"s1", NoSession}
ResponseTexts == {"r1", "r2"}
\* the value of a key that the JSON object does not hold, or holds as null
JsonNull == "null"

\* what a client may write on the socket: nothing, bytes that are no JSON, a
\* JSON value that is no object, or an object with or without the two keys
NoData == [kind |-> "nodata", correlation_id |-> NoCid, response |-> JsonNull]
NotJsonData == [kind |-> "notjson", correlation_id |-> NoCid, response |-> JsonNull]
NotObjectData == [kind |-> "notobject", correlation_id |-> NoCid, response |-> JsonNull]
ObjectData(cid, r) == [kind |-> "object", correlation_id |-> cid, response |-> r]
SocketData ==
    {NoData, NotJsonData, NotObjectData}
      \cup {ObjectData(cid, r) : cid \in 0..StrayCid, r \in ResponseTexts \cup {"", JsonNull}}

NoHandled == [data |-> NoData, raised |-> FALSE, handed |-> FALSE]

\* pending_dir / f"{session_id or correlation_id}.json"
PendingFile(sid, cid) == IF sid # NoSession THEN sid ELSE <<"c1", "c2", "c3">>[cid]

TmuxInit ==
    /\ trunning = FALSE
    /\ tpend = <<>>
    /\ tfut = [q \in TCalls |-> [state |-> "none", value |-> "none"]]
    /\ tpc = [q \in TCalls |-> "idle"]
    /\ tres = [q \in TCalls |-> NoResult]
    /\ tfile = [q \in TCalls |-> "none"]
    /\ typed = {}
    /\ tfiles = <<>>
    /\ tlast = NoHandled

\* TmuxSessionManager.start: the socket server listens
TmuxStart ==
    /\ ~trunning
    /\ trunning' = TRUE
    /\ UNCHANGED <<tpend, tfut, tpc, tres, tfile, typed, tfiles, tlast>>
    /\ UNCHANGED nonTmuxVars

\* Future.cancel(): a Future that is done stays as it is
Cancel(f) == IF f.state = "pending" THEN [state |-> "cancelled", value |-> "none"] ELSE f

\* TmuxSessionManager.stop: the server is closed, every Future that is not
\* done is cancelled, the map is cleared
TmuxStop ==
    /\ trunning
    /\ trunning' = FALSE
    /\ tfut' = [q \in TCalls |-> IF q \in {tpend[c] : c \in DOMAIN tpend} THEN Cancel(tfut[q]) ELSE tfut[q]]
    /\ tpend' = <<>>
    /\ UNCHANGED <<tpc, tres, tfile, typed, tfiles, tlast>>
    /\ UNCHANGED nonTmuxVars

\* send_query for a peer that is unknown or offline, or whose pane is not
\* found: ValueError, before anything is written
SendQueryRefused(q) ==
    /\ tpc[q] = "idle"
    /\ \A p \in TCalls : p < q => tpc[p] # "idle"
    /\ tpc' = [tpc EXCEPT ![q] = "done"]
    /\ tres' = [tres EXCEPT ![q] = [kind |-> "ValueError", value |-> "none"]]
    /\ UNCHANGED <<trunning, tpend, tfut, tfile, typed, tfiles, tlast>>
    /\ UNCHANGED nonTmuxVars

\* a send_query that types the query without storing its Future
StoreFutureNever(pend, cid, q) == pend

\* self._pending_futures[correlation_id] = response_future
StoreFuture(pend, cid, q) == (cid :> q) @@ pend

\* send_query up to its suspension in wait_for: correlation_id = uuid4 (the
\* call's number), the pending file is written, the Future is stored, the
\* query is typed into the pane.  There is no suspension point on the way.
SendQueryStart(q, sid) ==
    /\ tpc[q] = "idle"
    /\ \A p \in TCalls : p < q => tpc[p] # "idle"
    /\ tfile' = [tfile EXCEPT ![q] = PendingFile(sid, q)]
    /\ tfiles' = (PendingFile(sid, q) :> q) @@ tfiles
    /\ tfut' = [tfut EXCEPT ![q] = PendingFuture]
    /\ tpend' = StoreFuture(tpend, q, q)
    /\ typed' = typed \cup {q}
    /\ tpc' = [tpc EXCEPT ![q] = "waiting"]
    /\ UNCHANGED <<trunning, tres, tlast>>
    /\ UNCHANGED nonTmuxVars

\* asyncio.wait_for: the timeout expires while the Future is pending; the
\* Future is cancelled, the coroutine resumes later (SendQueryEnd)
SendQueryTimeout(q) ==
    /\ tpc[q] = "waiting"
    /\ tfut[q].state = "pending"
    /\ tfut' = [tfut EXCEPT ![q] = [state |-> "timedout", value |-> "none"]]
    /\ UNCHANGED <<trunning, tpend, tpc, tres, tfile, typed, tfiles, tlast>>
    /\ UNCHANGED nonTmuxVars

\* send_query resumes from wait_for: it returns the response, or raises
\* TimeoutError, or CancelledError after stop(); the finally block pops the
\* entry and unlinks the pending file if a file of that name exists
SendQueryEnd(q) ==
    /\ tpc[q] = "waiting"
    /\ tfut[q].state # "pending"
    /\ tres' = [tres EXCEPT ![q] =
                  IF tfut[q].state = "result"
                  THEN [kind |-> "response", value |-> tfut[q].value]
                  ELSE IF tfut[q].state = "timedout"
                       THEN [kind |-> "TimeoutError", value |-> "none"]
                       ELSE [kind |-> "CancelledError", value |-> "none"]]
    /\ tpend' = Pop(tpend, q)
    /\ tfiles' = Pop(tfiles, tfile[q])
    /\ tpc' = [tpc EXCEPT ![q] = "done"]
    /\ UNCHANGED <<trunning, tfut, tfile, typed, tlast>>
    /\ UNCHANGED nonTmuxVars

\* a value is falsy in Python: None (NoCid for a correlation_id) or the empty string
FalsyCid(c) == c = NoCid
FalsyText(r) == r = JsonNull \/ r = ""

\* a _handle_response without the test of future.done()
HandleResponseNoDoneTest(pend, futs, cid, r) ==
    IF cid \in DOMAIN pend
    THEN [futs EXCEPT ![pend[cid]] = [state |-> "result", value |-> r]]
    ELSE futs

\* _handle_response: future = self._pending_futures.get(correlation_id);
\* if future and not future.done(): future.set_result(response)
HandleResponse(pend, futs, cid, r) ==
    IF cid \in DOMAIN pend /\ futs[pend[cid]].state = "pending"
    THEN [futs EXCEPT ![pend[cid]] = [state |-> "result", value |-> r]]
    ELSE futs

\* _socket_handler for one connection: the data is read and parsed; with a
\* correlation_id and a response that are both truthy _handle_response is
\* called; every Exception (no JSON, no object) is swallowed
SocketHandler(d) ==
    /\ trunning
    /\ IF d.kind = "object" /\ ~FalsyCid(d.correlation_id) /\ ~FalsyText(d.response)
       THEN /\ tfut' = HandleResponse(tpend, tfut, d.correlation_id, d.response)
            /\ tlast' = [data |-> d, raised |-> FALSE, handed |-> TRUE]
       ELSE /\ tfut' = tfut
            /\ tlast' = [data |-> d, raised |-> FALSE, handed |-> FALSE]
    /\ UNCHANGED <<trunning, tpend, tpc, tres, tfile, typed, tfiles>>
    /\ UNCHANGED nonTmuxVars

TmuxNext ==
    \/ TmuxStart
    \/ TmuxStop
    \/ \E q \in TCalls : SendQueryRefused(q)
    \/ \E q \in TCalls, sid \in ClaudeSessions : SendQueryStart(q, sid)
    \/ \E q \in TCalls : SendQueryTimeout(q)
    \/ \E q \in TCalls : SendQueryEnd(q)
    \/ \E d \in SocketData : SocketHandler(d)

\* ---------------------------------------- TmuxSessionManager: the claims

\* the step is _socket_handler serving a connection
Serves ==
    \/ tlast' # tlast
    \/ \E q \in TCalls : tfut[q].state # "result" /\ tfut'[q].state = "result"

\* the connection served in the step carried a response for call q
Answers(q) ==
    /\ Serves
    /\ tlast'.data.kind = "object"
    /\ tlast'.data.correlation_id = q
    /\ ~FalsyText(tlast'.data.response)

\* C28: a response on the socket releases the waiting send_query whose
\* correlation_id it carries, with its text; a Future is released only that
\* way and at most once; a response with an unknown correlation_id, one for
\* a query that has timed out, or one for a query already fulfilled raises
\* nothing and leaves every Future and the pending map as they were.
C28_ResponseReleasesAtMostOnce ==
    [][\A q \in TCalls :
        /\ (Answers(q) /\ q \in DOMAIN tpend /\ tfut[q].state = "pending")
              => tfut'[q] = [state |-> "result", value |-> tlast'.data.response]
        /\ (tfut[q].state # "result" /\ tfut'[q].state = "result")
              => Answers(q) /\ tpc[q] = "waiting" /\ tfut[q].state = "pending"
        /\ tfut[q].state = "result" => tfut'[q] = tfut[q]
        /\ Serves
              => /\ tlast'.raised = FALSE
                 /\ tpend' = tpend
                 /\ ~Answers(q) => tfut'[q] = tfut[q]
                 /\ (tlast'.data.correlation_id \notin DOMAIN tpend) => tfut' = tfut
                 /\ (Answers(q) /\ tfut[q].state # "pending") => tfut' = tfut
      ]_vars

\* a query was fulfilled and a second response with its correlation_id,
\* carrying another text, was served afterwards; the other query had timed
\* out when a response for it was served
C28_Witness ==
    /\ tfut[1].state = "result"
    /\ tlast.handed
    /\ tlast.data.correlation_id = 1
    /\ tlast.data.response # tfut[1].value
    /\ tres[2].kind = "TimeoutError"

\* C39: while a send_query call is in flight, its Future pending, its
\* pending file exists and holds that call's correlation_id, also when
\* another send_query overlaps it.
C39_PendingFileNamesItsQuery ==
    \A q \in TCalls :
        (tpc[q] = "waiting" /\ tfut[q].state = "pending")
            => tfile[q] \in DOMAIN tfiles /\ tfiles[tfile[q]] = q

\* ------------------------------------------------- the three query paths

\* the three components share no state: each is run from the initial state
\* with the other two left alone
QueryPathsNext ==
    \/ HappyInit /\ TmuxInit /\ BusNext
    \/ BusInit /\ TmuxInit /\ HappyNext
    \/ BusInit /\ HappyInit /\ TmuxNext

\* C23: in each of the three query paths a query that has been dispatched -
\* its handler task created by MessageBus.query, its emit started by
\* HappyTransport.send_message, its text typed into the pane by
\* TmuxSessionManager.send_query - and whose Future is still pending has its
\* entry in the pending map, leading to that Future: a response arriving at
\* any point after the dispatch finds the entry.
C23_PendingBeforeDispatch ==
    /\ \A q \in Calls :
          (qtask[q] # "none" /\ qpc[q] = "waiting" /\ fut[q].state = "pending")
             => /\ PendingKey(qmsg[q]) \in DOMAIN pendingResponses
                /\ pendingResponses[PendingKey(qmsg[q])] = q
    /\ \A c \in HCalls :
          (hpc[c] \in {"emitting", "waiting"} /\ hfut[c] = "pending") => c \in Range(hpend)
    /\ \A q \in TCalls :
          (q \in typed /\ tpc[q] = "waiting" /\ tfut[q].state = "pending")
             => q \in DOMAIN tpend /\ tpend[q] = q

\* a query is dispatched and unanswered on the tmux path while an earlier one
\* has been answered
C23_Witness ==
    /\ 2 \in typed
    /\ tfut[2].state = "pending"
    /\ 2 \in DOMAIN tpend
    /\ tres[1].kind = "response"

\* ------------------------------- HappyTransport: sessions and inbound updates
\* (calls made while the transport is connected: _ensure_connected returns at once)
\* number of send_message / send_notification calls made
MaxTransportCalls == 2
UCalls == 1..MaxTransportCalls
\* number of update events received
MaxUpdates == 2
UpdateTasks == 1..MaxUpdates
\* a ciphertext that no session key opens
Garbage == "garbage"

\* the content of a decrypted record: {"type": ..., "text": s}; {"type":
\* "output", "data": {"message": {"content": parts}}}; a list; another value
FlatContent(s) == [shape |-> "flat", s |-> s, parts |-> <<>>]
OutputParts(parts) == [shape |-> "output", s |-> <<>>, parts |-> parts]
PartsContent(parts) == [shape |-> "list", s |-> <<>>, parts |-> parts]
ScalarContent(s) == [shape |-> "scalar", s |-> s, parts |-> <<>>]

\* what decrypt_raw returns: None, a JSON value that is no object, or an object
NoneValue == [k |-> "none", role |-> Absent, content |-> FlatContent(<<>>)]
ListValue == [k |-> "list", role |-> Absent, content |-> FlatContent(<<>>)]
RecordValue(role, content) == [k |-> "record", role |-> role, content |-> content]

\* an update event: body (absent, not an object, an object), body.t, body.sid,
\* body.message (absent, not an object, an object), message.content (absent,
\* not an object, an object whose t is "encrypted" or not, with or without
\* c), the session whose key made c, and the value encrypted in c
Update(body, t, sid, msg, content, key, value) ==
    [body |-> body, t |-> t, sid |-> sid, message |-> msg, content |-> content,
     key |-> key, value |-> value]

NewMessage(sid, msg, content, key, value) ==
    Update("dict", "new-message", sid, msg, content, key, value)

Encrypted(sid, key, value) == NewMessage(sid, "dict", "encrypted", key, value)

NoUpdate == Update("absent", Absent, Absent, "absent", "absent", Garbage, NoneValue)

Malformed ==
    { NoUpdate,
      Update("notdict", Absent, Absent, "absent", "absent", Garbage, NoneValue),
      Update("dict", "other", "s1", "dict", "encrypted", "s1", NoneValue),
      NewMessage(Absent, "dict", "encrypted", "s1", NoneValue),
      NewMessage("s1", "absent", "absent", Garbage, NoneValue),
      NewMessage("s1", "notdict", "absent", Garbage, NoneValue),
      NewMessage("s1", "dict", "absent", Garbage, NoneValue),
      NewMessage("s1", "dict", "notdict", Garbage, NoneValue),
      NewMessage("s1", "dict", "plain", Garbage, NoneValue),
      NewMessage("s1", "dict", "encrypted-noc", Garbage, NoneValue) }

Undecryptable == { Encrypted("s1", Garbage, NoneValue) }

NotARecord == { Encrypted("s1", "s1", ListValue) }

Records ==
    { Encrypted("s1", "s1", RecordValue("user", FlatContent(<<"q">>))),
      Encrypted("s1", "s1", RecordValue("assistant", FlatContent(<<>>))),
      Encrypted("s1", "s1", RecordValue("assistant", FlatContent(<<"a">>))),
      Encrypted("s2", "s2", RecordValue("agent",
                   OutputParts(<<TextPart(<<"a">>), ToolUsePart, TextPart(<<"b">>)>>))),
      Encrypted("s2", "s2", RecordValue("agent", PartsContent(<<ToolUsePart>>))),
      Encrypted("s2", "s2", RecordValue("assistant", ScalarContent(<<"b">>))) }

Updates == Malformed \cup Undecryptable \cup NotARecord \cup Records

NoTransportCall == [kind |-> "none", sid |-> Absent, fetched |-> FALSE, encrypted |-> FALSE,
           emitted |-> FALSE]
IdleHandler == [pc |-> "idle", d |-> NoUpdate, snap |-> <<>>, pos |-> 0]
NoOutcome == [kind |-> "none", exc |-> "none", fulfilled |-> {}]

UpdateInit ==
    /\ ucache = {}
    /\ upend = <<>>
    /\ ufut = [c \in UCalls |-> [state |-> "none", value |-> <<>>]]
    /\ upc = [c \in UCalls |-> "idle"]
    /\ ucall = [c \in UCalls |-> NoTransportCall]
    /\ ures = [c \in UCalls |-> "none"]
    /\ uh = [h \in UpdateTasks |-> IdleHandler]
    /\ uout = [h \in UpdateTasks |-> NoOutcome]

\* _fetch_sessions: initialize_session for every session of the list
CacheListed(cache, listed) == cache \cup listed

\* a _get_session_encryption that fetches whatever the cache holds
NeedsFetchAlways(cache, sid) == TRUE

\* _get_session_encryption: if session_enc is None: await self._fetch_sessions()
NeedsFetch(cache, sid) == sid \notin cache

\* a send_notification that stores a Future as send_message does
StoresFutureAlways(kind) == TRUE

\* send_message creates response_future and stores it; send_notification does not
StoresFuture(kind) == kind = "message"

\* session_enc.encrypt_raw_record, the Future stored under a fresh query id
\* (send_message only), then await self.sio.emit
EncryptAndEmit(c, call) ==
    /\ ucall' = [ucall EXCEPT ![c] = [call EXCEPT !.encrypted = TRUE, !.emitted = TRUE]]
    /\ upc' = [upc EXCEPT ![c] = "emitting"]
    /\ IF StoresFuture(call.kind)
       THEN /\ upend' = Append(upend, c)
            /\ ufut' = [ufut EXCEPT ![c] = [state |-> "pending", value |-> <<>>]]
       ELSE UNCHANGED <<upend, ufut>>

\* raise ValueError(f"Session {session_id} not found or not initialized")
NotInitialised(c, call) ==
    /\ ucall' = [ucall EXCEPT ![c] = call]
    /\ upc' = [upc EXCEPT ![c] = "done"]
    /\ ures' = [ures EXCEPT ![c] = "ValueError"]
    /\ UNCHANGED <<upend, ufut>>

\* send_message / send_notification up to the first suspension: with the
\* session cached the record is encrypted and emitted, else the session
\* list is fetched
TransportCall(c, kind, sid) ==
    /\ upc[c] = "idle"
    /\ \A b \in UCalls : b < c => upc[b] # "idle"
    /\ LET call == [NoTransportCall EXCEPT !.kind = kind, !.sid = sid] IN
       IF NeedsFetch(ucache, sid)
       THEN /\ ucall' = [ucall EXCEPT ![c] = [call EXCEPT !.fetched = TRUE]]
            /\ upc' = [upc EXCEPT ![c] = "fetching"]
            /\ UNCHANGED <<upend, ufut>>
       ELSE EncryptAndEmit(c, call)
    /\ UNCHANGED <<ucache, ures, uh, uout>>
    /\ UNCHANGED nonUpdateVars

\* _fetch_sessions returns to send_message / send_notification: the call
\* goes on if the session is known now, else it raises ValueError
CallFetchReturns(c, listed) ==
    /\ upc[c] = "fetching"
    /\ ucache' = CacheListed(ucache, listed)
    /\ IF ucall[c].sid \in ucache'
       THEN EncryptAndEmit(c, ucall[c]) /\ UNCHANGED ures
       ELSE NotInitialised(c, ucall[c])
    /\ UNCHANGED <<uh, uout>>
    /\ UNCHANGED nonUpdateVars

\* _fetch_sessions raises (the request failed): the error leaves the call
CallFetchRaises(c) ==
    /\ upc[c] = "fetching"
    /\ upc' = [upc EXCEPT ![c] = "done"]
    /\ ures' = [ures EXCEPT ![c] = "HTTPError"]
    /\ UNCHANGED <<ucache, upend, ufut, ucall, uh, uout>>
    /\ UNCHANGED nonUpdateVars

\* await self.sio.emit returns: send_notification returns None,
\* send_message waits for its Future
TransportEmitReturns(c) ==
    /\ upc[c] = "emitting"
    /\ IF ucall[c].kind = "notification"
       THEN /\ upc' = [upc EXCEPT ![c] = "done"]
            /\ ures' = [ures EXCEPT ![c] = "returned"]
       ELSE /\ upc' = [upc EXCEPT ![c] = "waiting"]
            /\ UNCHANGED ures
    /\ UNCHANGED <<ucache, upend, ufut, ucall, uh, uout>>
    /\ UNCHANGED nonUpdateVars

\* wait_for(response_future, timeout=120.0) expires
TransportTimeout(c) ==
    /\ upc[c] = "waiting"
    /\ ufut[c].state = "pending"
    /\ ufut' = [ufut EXCEPT ![c] = [state |-> "timedout", value |-> <<>>]]
    /\ UNCHANGED <<ucache, upend, upc, ucall, ures, uh, uout>>
    /\ UNCHANGED nonUpdateVars

\* send_message resumes from wait_for: the response, or TimeoutError after
\* deleting the entry
TransportResume(c) ==
    /\ upc[c] = "waiting"
    /\ ufut[c].state # "pending"
    /\ upc' = [upc EXCEPT ![c] = "done"]
    /\ IF ufut[c].state = "result"
       THEN ures' = [ures EXCEPT ![c] = "response"] /\ UNCHANGED upend
       ELSE ures' = [ures EXCEPT ![c] = "TimeoutError"] /\ upend' = Without(upend, c)
    /\ UNCHANGED <<ucache, ufut, ucall, uh, uout>>
    /\ UNCHANGED nonUpdateVars

\* await self.sio.emit raises: the error leaves the call, an entry stays
TransportEmitRaises(c) ==
    /\ upc[c] = "emitting"
    /\ upc' = [upc EXCEPT ![c] = "done"]
    /\ ures' = [ures EXCEPT ![c] = "EmitError"]
    /\ UNCHANGED <<ucache, upend, ufut, ucall, uh, uout>>
    /\ UNCHANGED nonUpdateVars

\* c.get("text", "") for c in parts if isinstance(c, dict) and c.get("type") == "text"
RECURSIVE TextsOfParts(_)
TextsOfParts(parts) ==
    IF parts = <<>> THEN <<>>
    ELSE IF Head(parts).k = "dict" /\ Head(parts).type = "text"
    THEN <<IF Head(parts).has_text THEN Head(parts).text ELSE <<>> >> \o TextsOfParts(Tail(parts))
    ELSE TextsOfParts(Tail(parts))

\* the text of a record's content: the "text" of an object, the joined text
\* parts of a list or of the list inside an "output" wrapper, str() of
\* anything else
ExtractText(content) ==
    IF content.shape \in {"flat", "scalar"} THEN content.s
    ELSE Join(TextsOfParts(content.parts))

\* session_enc.decrypt_raw(c): the value, or None when the key does not open c
DecryptRaw(sid, d) == IF d.key = sid THEN d.value ELSE NoneValue

Nothing == [exc |-> "none", text |-> <<>>]
Raise(e) == [exc |-> e, text |-> <<>>]

\* the body of "if not future.done()" once session_enc is there: the test of
\* the content's shape, the decryption, the role, the text
Attempt(d) ==
    IF d.message = "notdict" \/ d.content = "notdict" THEN Raise("AttributeError")
    ELSE IF d.content \in {"absent", "plain"} THEN Nothing
    ELSE IF d.content = "encrypted-noc" THEN Raise("KeyError")
    ELSE LET content == DecryptRaw(d.sid, d) IN
         IF content.k = "none" THEN Nothing
         ELSE IF content.k = "list" THEN Raise("AttributeError")
         ELSE IF content.role \in {"assistant", "agent"}
              THEN [exc |-> "none", text |-> ExtractText(content.content)]
              ELSE Nothing

\* the update task h ends: _handle_update returned or raised
Finish(h, d, kind, exc, fulfilled) ==
    /\ uh' = [uh EXCEPT ![h] = [pc |-> "done", d |-> NoUpdate, snap |-> <<>>, pos |-> 0]]
    /\ uout' = [uout EXCEPT ![h] = [kind |-> kind, exc |-> exc, fulfilled |-> fulfilled]]

\* future.set_result(text); del self._pending_responses[query_id]; break
Fulfil(h, d, c, text) ==
    IF ufut[c].state # "pending"
    THEN /\ Finish(h, d, "raised", "InvalidStateError", {})
         /\ UNCHANGED <<ufut, upend>>
    ELSE /\ ufut' = [ufut EXCEPT ![c] = [state |-> "result", value |-> text]]
         /\ IF c \in Range(upend)
            THEN upend' = Without(upend, c) /\ Finish(h, d, "returned", "none", {c})
            ELSE UNCHANGED upend /\ Finish(h, d, "raised", "KeyError", {c})

\* the entry at or after pos whose Future is not done, 0 if there is none
FirstPending(snap, pos) ==
    IF \E i \in pos..Len(snap) : ufut[snap[i]].state = "pending"
    THEN CHOOSE i \in pos..Len(snap) :
            /\ ufut[snap[i]].state = "pending"
            /\ \A j \in pos..Len(snap) : ufut[snap[j]].state = "pending" => i <= j
    ELSE 0

\* the loop over list(self._pending_responses.items()) from position pos,
\* up to the next suspension: entries whose Future is done are skipped; at
\* the first other entry the session list is fetched if the session is not
\* cached; else the message is tried, and being the same for every entry it
\* raises, fulfils that entry, or leaves all of them
Loop(h, d, snap, pos, cache) ==
    LET i == FirstPending(snap, pos) IN
    IF i = 0
    THEN Finish(h, d, "returned", "none", {}) /\ UNCHANGED <<ufut, upend>>
    ELSE IF NeedsFetch(cache, d.sid)
    THEN /\ uh' = [uh EXCEPT ![h] = [pc |-> "fetching", d |-> d, snap |-> snap, pos |-> i]]
         /\ UNCHANGED <<uout, ufut, upend>>
    ELSE IF Attempt(d).exc # "none"
    THEN Finish(h, d, "raised", Attempt(d).exc, {}) /\ UNCHANGED <<ufut, upend>>
    ELSE IF Attempt(d).text # <<>>
    THEN Fulfil(h, d, snap[i], Attempt(d).text)
    ELSE Finish(h, d, "returned", "none", {}) /\ UNCHANGED <<ufut, upend>>

\* the socket.io client received an update event and created the task that
\* runs on_update(data); the tasks start in the order of the events
on_update(h, d) ==
    /\ uh[h].pc = "idle"
    /\ \A g \in UpdateTasks : g < h => uh[g].pc \notin {"idle", "received"}
    /\ uh' = [uh EXCEPT ![h] = [pc |-> "received", d |-> d, snap |-> <<>>, pos |-> 0]]
    /\ UNCHANGED <<ucache, upend, ufut, upc, ucall, ures, uout>>
    /\ UNCHANGED nonUpdateVars

\* _handle_update -> _handle_new_message, up to the first suspension
HandleUpdate(h) ==
    /\ uh[h].pc = "received"
    /\ LET d == uh[h].d IN
       IF d.body = "notdict"
       THEN Finish(h, d, "raised", "AttributeError", {}) /\ UNCHANGED <<ufut, upend>>
       ELSE IF d.body = "absent" \/ d.t # "new-message" \/ d.sid = Absent
               \/ d.message = "absent"
       THEN Finish(h, d, "returned", "none", {}) /\ UNCHANGED <<ufut, upend>>
       ELSE Loop(h, d, upend, 1, ucache)
    /\ UNCHANGED <<ucache, upc, ucall, ures>>
    /\ UNCHANGED nonUpdateVars

\* _fetch_sessions returns to the update task: without the session the loop
\* goes on with the next entry; with it the message is tried for the entry
\* the task stopped at, whose Future is not tested again
HandlerFetchReturns(h, listed) ==
    /\ uh[h].pc = "fetching"
    /\ ucache' = CacheListed(ucache, listed)
    /\ LET d == uh[h].d
           snap == uh[h].snap
           i == uh[h].pos
       IN IF d.sid \notin ucache'
          THEN Loop(h, d, snap, i + 1, ucache')
          ELSE IF Attempt(d).exc # "none"
          THEN Finish(h, d, "raised", Attempt(d).exc, {}) /\ UNCHANGED <<ufut, upend>>
          ELSE IF Attempt(d).text # <<>>
          THEN Fulfil(h, d, snap[i], Attempt(d).text)
          ELSE Loop(h, d, snap, i + 1, ucache')
    /\ UNCHANGED <<upc, ucall, ures>>
    /\ UNCHANGED nonUpdateVars

\* _fetch_sessions raises in the update task: the error leaves _handle_update
HandlerFetchRaises(h) ==
    /\ uh[h].pc = "fetching"
    /\ Finish(h, uh[h].d, "raised", "HTTPError", {})
    /\ UNCHANGED <<ucache, upend, ufut, upc, ucall, ures>>
    /\ UNCHANGED nonUpdateVars

UpdateNext ==
    \/ \E c \in UCalls, kind \in {"message", "notification"}, sid \in SessionIds :
          TransportCall(c, kind, sid)
    \/ \E c \in UCalls, listed \in SUBSET SessionIds : CallFetchReturns(c, listed)
    \/ \E c \in UCalls : CallFetchRaises(c)
    \/ \E c \in UCalls : TransportEmitReturns(c)
    \/ \E c \in UCalls : TransportEmitRaises(c)
    \/ \E c \in UCalls : TransportTimeout(c)
    \/ \E c \in UCalls : TransportResume(c)
    \/ \E h \in UpdateTasks, d \in Updates : on_update(h, d)
    \/ \E h \in UpdateTasks : HandleUpdate(h)
    \/ \E h \in UpdateTasks, listed \in SUBSET SessionIds : HandlerFetchReturns(h, listed)
    \/ \E h \in UpdateTasks : HandlerFetchRaises(h)

\* ----------------------- HappyTransport: sessions and updates, the claims

\* the step starts call c
Starts(c) == upc[c] = "idle" /\ upc'[c] # "idle"

\* C27: a send_message or send_notification for a session that has no
\* cached SessionEncryption fetches the session list before it encrypts,
\* stores or emits anything; if the session is still unknown when the fetch
\* has returned the call ends with ValueError, nothing encrypted, nothing
\* emitted, no pending entry; for a cached session the call does not fetch.
C27_FetchBeforeEncrypt ==
    [][\A c \in UCalls :
        /\ (Starts(c) /\ ucall'[c].sid \notin ucache)
              => upc'[c] = "fetching" /\ ucall'[c].fetched
        /\ (Starts(c) /\ ucall'[c].sid \in ucache)
              => upc'[c] = "emitting" /\ ~ucall'[c].fetched /\ ucache' = ucache
        /\ upc'[c] = "fetching"
              => /\ ~ucall'[c].encrypted /\ ~ucall'[c].emitted
                 /\ c \notin Range(upend')
        /\ (upc[c] = "fetching" /\ upc'[c] # "fetching" /\ ures'[c] # "HTTPError")
              => IF ucall[c].sid \in ucache'
                 THEN upc'[c] = "emitting" /\ ucall'[c].encrypted
                 ELSE ures'[c] = "ValueError"
        /\ ures'[c] = "ValueError"
              => /\ ucall'[c].fetched /\ ~ucall'[c].encrypted /\ ~ucall'[c].emitted
                 /\ c \notin Range(upend') /\ ufut'[c].state = "none"
        /\ upc[c] # "idle" => ucall'[c].fetched = ucall[c].fetched
      ]_vars

\* one call fetched, found its session still unknown and raised ValueError;
\* another, for a session cached by then, went on without fetching
C27_Witness ==
    \E b, c \in UCalls :
        /\ ures[b] = "ValueError"
        /\ ucall[b].fetched
        /\ upc[c] = "emitting"
        /\ ~ucall[c].fetched
        /\ ucall[c].emitted

\* the step ends the handling of update task h
Ends25(h) == uh[h].pc \in {"received", "fetching"} /\ uh'[h].pc = "done"

\* the update is a new-message for a session, and with the session's key its
\* content decrypts to a record of role assistant or agent with a text
Answer(d) ==
    /\ d.body = "dict" /\ d.t = "new-message" /\ d.sid # Absent /\ d.message = "dict"
    /\ Attempt(d).exc = "none"
    /\ Attempt(d).text # <<>>

\* the calls whose entry is in the map with a Future that is not done, in
\* the order the entries were created
Unresolved25 == SelectSeq(upend, LAMBDA c : ufut[c].state = "pending")

\* the calls whose Future the step fulfils
Fulfilled == {c \in UCalls : ufut[c].state # "result" /\ ufut'[c].state = "result"}

\* C25: the handling of one new-message update fulfils at most one entry;
\* when the update is an answer, its session's encryption is at hand and an
\* unresolved entry exists, the earliest-created unresolved entry is
\* fulfilled with the text and removed, every other entry staying as it is;
\* otherwise (also when the fetch of the session list failed) no entry is
\* fulfilled or removed.
C25_FulfilsEarliestUnresolved ==
    [][\A h \in UpdateTasks :
        Ends25(h) =>
          IF /\ Answer(uh[h].d) /\ uh[h].d.sid \in ucache' /\ Unresolved25 # <<>>
             /\ uout'[h].exc # "HTTPError"
          THEN /\ Fulfilled = {Head(Unresolved25)}
               /\ ufut'[Head(Unresolved25)].value = Attempt(uh[h].d).text
               /\ upend' = Without(upend, Head(Unresolved25))
               /\ \A c \in UCalls \ {Head(Unresolved25)} : ufut'[c] = ufut[c]
          ELSE Fulfilled = {} /\ upend' = upend /\ ufut' = ufut
      ]_vars

\* C26: the handling of an inbound update never raises, whatever the update
\* and however it interleaves with timeouts and other updates.
C26_UpdateNeverRaises == \A h \in UpdateTasks : uout[h].kind # "raised"

\* C31: the entry of a send_message sent to session S is fulfilled only by
\* the handling of an update whose session id is S.
C31_FulfilledBySameSession ==
    [][\A h \in UpdateTasks, c \in UCalls :
        (Ends25(h) /\ c \in Fulfilled) => uh[h].d.sid = ucall[c].sid
      ]_vars

\* --------------------------------------------------- fire and forget

\* the bus and the transport share no state: each is run from the initial
\* state with the other left alone
NotifyNext ==
    \/ UpdateInit /\ BusNext
    \/ BusInit /\ UpdateNext

\* C29: the send() of a NOTIFICATION or BROADCAST on the bus returns in the
\* step that creates the recipients' handler tasks and leaves the pending
\* map and every Future as they were; a send_notification of the transport
\* never owns a pending entry or a Future, never waits for one, and none of
\* its steps changes the pending map or a Future.
C29_FireAndForget ==
    [][/\ (logLen' = logLen + 1 /\ sent'.type \in {"NOTIFICATION", "BROADCAST"})
            => /\ sendOutcome' = "ok"
               /\ pendingResponses' = pendingResponses
               /\ fut' = fut
               /\ qpc' = qpc
       /\ \A c \in UCalls :
            ucall'[c].kind = "notification"
               => /\ c \notin Range(upend')
                  /\ ufut'[c].state = "none"
                  /\ upc'[c] # "waiting"
                  /\ upc'[c] # upc[c] => upend' = upend /\ ufut' = ufut
                  /\ (upc[c] = "emitting" /\ upc'[c] # "emitting" /\ ures'[c] # "EmitError")
                        => ures'[c] = "returned"
      ]_vars

\* a send_notification has returned while an earlier send_message is still
\* waiting for its answer and no update has been received
C29_Witness ==
    \E b, c \in UCalls :
        /\ ucall[c].kind = "notification"
        /\ ures[c] = "returned"
        /\ upc[b] = "waiting"
        /\ ufut[b].state = "pending"
        /\ upend = <<b>>
        /\ \A h \in UpdateTasks : uh[h].pc = "idle"

\* -------------------------------------------- ask_peer: the bounded wait

\* a send_message that catches the cancellation and goes on waiting
CancelSwallowed(transport) == "none"

\* what leaves transport.send_message when wait_for cancels it: no except
\* clause of HappyTransport.send_message or of connect() catches
\* CancelledError, and OpenCodeTransport.send_message has no try block
CancelLeaves(transport) == "CancelledError"

\* wait_for(..., timeout=timeout): the timer fires and the task running
\* send_message is cancelled; wait_for waits for that task to end
AskTimerFires ==
    /\ apc = "dispatched"
    /\ apc' = "cancelling"
    /\ UNCHANGED <<acaller, atarget, asel, acalled, araised, aresult>>
    /\ UNCHANGED <<peers, happyCreds, happyTransport, opencodeTransport, broadcastVars>>
    /\ UNCHANGED nonMeshVars

\* the cancelled send_message ends with CancelledError: wait_for raises
\* asyncio.TimeoutError and ask_peer returns its timeout result
AskCancelled ==
    /\ apc = "cancelling"
    /\ CancelLeaves(asel) = "CancelledError"
    /\ apc' = "done"
    /\ araised' = [exc |-> "TimeoutError", origin |-> "wait_for"]
    /\ aresult' = AskExcept("TimeoutError")
    /\ UNCHANGED <<acaller, atarget, asel, acalled>>
    /\ UNCHANGED <<peers, happyCreds, happyTransport, opencodeTransport, broadcastVars>>
    /\ UNCHANGED nonMeshVars

AskLiveNext ==
    \/ RegistryNext
    \/ \E caller \in PeerNames, target \in PeerNames : ask_peer(caller, target)
    \/ AskResponse
    \/ AskTimerFires
    \/ AskCancelled
    \/ \E exc \in SendMessageRaises("happy") : AskTransportRaises(exc)

\* C30: every ask_peer call that reached its transport eventually returns,
\* whether or not the transport ever answers or raises (the timer of
\* wait_for and the cancelled task being treated fairly); a call whose
\* timer fired returns the timeout result and nothing else.
C30_AskEventuallyReturns ==
    /\ (apc = "dispatched") ~> (apc = "done")
    /\ [][(apc = "cancelling" /\ apc' # "cancelling")
            => /\ apc' = "done"
               /\ aresult' = [success |-> FALSE, kind |-> "did not respond within"]
         ]_vars

\* an ask_peer call has returned the timeout result after its timer fired
C30_Witness ==
    /\ apc = "done"
    /\ acalled
    /\ araised = [exc |-> "TimeoutError", origin |-> "wait_for"]
    /\ aresult = [success |-> FALSE, kind |-> "did not respond within"]

(***************************************************************************)
(* The client daemon (client/daemon.py): the handling of the message       *)
(* events the relay delivers.  One task runs _handle_relay_message for     *)
(* each event; it is suspended in session_manager.send_query, whose        *)
(* outcomes are those of TmuxSessionManager.send_query: the response,      *)
(* ValueError before anything is written, TimeoutError, and CancelledError *)
(* once stop() has cancelled the Futures.  sio.emit raises                 *)
(* BadNamespaceError when the client is not connected.                     *)
(***************************************************************************)

\* number of message events the relay delivers
MaxRelayed == 2
RelayedTasks == 1..MaxRelayed

\* the keys of config.peers
ConfiguredPeers == {"a"}

Relayed(type, from_peer, to_peer, correlation_id) ==
    [type |-> type, from_peer |-> from_peer, to_peer |-> to_peer,
     correlation_id |-> correlation_id]

NoRelayed == Relayed("none", "none", NoPeerName, Missing)

RelayedMessages ==
    { Relayed(type, from_peer, to_peer, correlation_id) :
        type \in {"query", "notification", "response"},
        from_peer \in {"b", "c"},
        to_peer \in {"a", "z", NoPeerName},
        correlation_id \in {"x", Missing} }

\* what session_manager.send_query does once it is suspended in wait_for
QueryOutcomes ==
    {[kind |-> "response", value |-> r] : r \in ResponseTexts}
      \cup {[kind |-> k, value |-> "none"] : k \in {"TimeoutError", "CancelledError"}}

\* the response event: correlation_id, to_peer, payload.text, payload.success
ResponseEvent(correlation_id, to_peer, text, success) ==
    [correlation_id |-> correlation_id, to_peer |-> to_peer, text |-> text,
     success |-> success]

NoEnd == [ended |-> "none", local |-> "none"]

DaemonInit ==
    /\ dlink = TRUE
    /\ dstopped = FALSE
    /\ dpc = [h \in RelayedTasks |-> "idle"]
    /\ dmsg = [h \in RelayedTasks |-> NoRelayed]
    /\ dout = [h \in RelayedTasks |-> <<>>]
    /\ dres = [h \in RelayedTasks |-> NoEnd]

\* _handle_relay_message returns or raises: the task is over
DaemonEnds(h, ended, local) ==
    /\ dpc' = [dpc EXCEPT ![h] = "done"]
    /\ dmsg' = [dmsg EXCEPT ![h] = NoRelayed]
    /\ dres' = [dres EXCEPT ![h] = [ended |-> ended, local |-> local]]

\* await self._sio.emit("response", ...), in the try block or in the except
\* block: on a client that is not connected emit raises, in the try block
\* the except block then emits again and that emit raises out of the handler
EmitResponse(h, m, local, text, success) ==
    IF dlink
    THEN /\ dout' = [dout EXCEPT ![h] =
                        Append(@, ResponseEvent(m.correlation_id, m.from_peer, text, success))]
         /\ DaemonEnds(h, "returned", local)
    ELSE /\ UNCHANGED dout
         /\ DaemonEnds(h, "BadNamespaceError", local)

\* an except clause that catches nothing
ExceptCatchesNothing(exc) == FALSE

\* except Exception: CancelledError is a BaseException
ExceptCatches(exc) == exc # "CancelledError"

\* the relay's message event reaches the client: the task that runs
\* on_message(data) is created; the tasks start in the order of the events
on_relay_message(h, m) ==
    /\ dlink
    /\ dpc[h] = "idle"
    /\ \A g \in RelayedTasks : g < h => dpc[g] \notin {"idle", "received"}
    /\ dpc' = [dpc EXCEPT ![h] = "received"]
    /\ dmsg' = [dmsg EXCEPT ![h] = m]
    /\ UNCHANGED <<dlink, dstopped, dout, dres>>
    /\ UNCHANGED nonDaemonVars

\* _handle_relay_message up to its first suspension: a message for a peer
\* that is not configured is dropped; a QUERY with a correlation_id starts
\* send_query, which raises ValueError at once when it refuses the peer; a
\* NOTIFICATION is typed into the pane, errors swallowed
HandleRelayMessage(h, refused) ==
    /\ dpc[h] = "received"
    /\ LET m == dmsg[h] IN
       IF m.to_peer = NoPeerName \/ m.to_peer \notin ConfiguredPeers
       THEN DaemonEnds(h, "returned", "none") /\ UNCHANGED dout
       ELSE IF m.type = "query" /\ m.correlation_id # Missing
       THEN IF refused
            THEN IF ExceptCatches("ValueError")
                 THEN EmitResponse(h, m, "ValueError", "ValueError", FALSE)
                 ELSE DaemonEnds(h, "ValueError", "ValueError") /\ UNCHANGED dout
            ELSE /\ dpc' = [dpc EXCEPT ![h] = "querying"]
                 /\ UNCHANGED <<dmsg, dout, dres>>
       ELSE DaemonEnds(h, "returned", "none") /\ UNCHANGED dout
    /\ UNCHANGED <<dlink, dstopped>>
    /\ UNCHANGED nonDaemonVars

\* send_query ends and the task resumes: the response is emitted with
\* success true, an Exception with success false, a CancelledError (the
\* only outcome once stop() has cancelled the Futures) leaves the handler
LocalQueryEnds(h, o) ==
    /\ dpc[h] = "querying"
    /\ dstopped <=> o.kind = "CancelledError"
    /\ IF o.kind = "response"
       THEN EmitResponse(h, dmsg[h], "response", o.value, TRUE)
       ELSE IF ExceptCatches(o.kind)
       THEN EmitResponse(h, dmsg[h], o.kind, o.kind, FALSE)
       ELSE DaemonEnds(h, o.kind, o.kind) /\ UNCHANGED dout
    /\ UNCHANGED <<dlink, dstopped>>
    /\ UNCHANGED nonDaemonVars

\* the connection to the relay is lost
RelayLinkDown ==
    /\ dlink
    /\ dlink' = FALSE
    /\ UNCHANGED <<dstopped, dpc, dmsg, dout, dres>>
    /\ UNCHANGED nonDaemonVars

\* the socket.io client reconnects (reconnection=True)
RelayLinkUp ==
    /\ ~dlink
    /\ ~dstopped
    /\ dlink' = TRUE
    /\ UNCHANGED <<dstopped, dpc, dmsg, dout, dres>>
    /\ UNCHANGED nonDaemonVars

\* RepowireDaemon.stop: the client is disconnected, then
\* session_manager.stop cancels the Futures of the queries in flight
DaemonStop ==
    /\ ~dstopped
    /\ dstopped' = TRUE
    /\ dlink' = FALSE
    /\ UNCHANGED <<dpc, dmsg, dout, dres>>
    /\ UNCHANGED nonDaemonVars

DaemonNext ==
    \/ \E h \in RelayedTasks, m \in RelayedMessages : on_relay_message(h, m)
    \/ \E h \in RelayedTasks, refused \in BOOLEAN : HandleRelayMessage(h, refused)
    \/ \E h \in RelayedTasks, o \in QueryOutcomes : LocalQueryEnds(h, o)
    \/ RelayLinkDown
    \/ RelayLinkUp
    \/ DaemonStop

\* ------------------------------------------------ client daemon: the claims

\* the step ends the handling of relayed message h
Ends40(h) == dpc[h] # "done" /\ dpc'[h] = "done"

\* a QUERY that carries a correlation_id and is addressed to a configured peer
Qualifies(m) ==
    m.type = "query" /\ m.correlation_id # Missing /\ m.to_peer \in ConfiguredPeers

\* the handling of message m ended with exactly one response event, which
\* echoes the correlation_id, goes to the sender, and says success iff the
\* local query returned a response
OneResponse(m, out, end) ==
    /\ Len(out) = 1
    /\ out[1].correlation_id = m.correlation_id
    /\ out[1].to_peer = m.from_peer
    /\ out[1].success <=> end.local = "response"

Init == BusInit /\ HappyInit /\ MeshInit /\ EncInit /\ CipherInit
        /\ DeriveInit /\ RegistryInit /\ FactoryInit /\ RelayInit
        /\ AuthInit /\ TranscriptInit /\ StateInit /\ TmuxInit /\ UpdateInit
        /\ DaemonInit
Next == BusNext
Spec == Init /\ [][Next]_vars
HappySpec == Init /\ [][HappyNext]_vars
AskSpec == Init /\ [][AskNext]_vars
AskLiveSpec ==
    Init /\ [][AskLiveNext]_vars /\ WF_vars(AskTimerFires) /\ WF_vars(AskCancelled)
BroadcastSpec == Init /\ [][BroadcastNext]_vars
EncSpec == Init /\ [][EncNext]_vars
CipherSpec == Init /\ [][CipherNext]_vars
DeriveSpec == Init /\ [][DeriveNext]_vars
RegistrySpec == Init /\ [][PeerRegistryNext]_vars
FactorySpec == Init /\ [][FactoryNext]_vars
RelaySpec == Init /\ [][RelayNext]_vars
RelayUsersSpec == Init /\ [][RelayUsersNext]_vars
AuthSpec == Init /\ [][AuthNext]_vars
TranscriptSpec == Init /\ [][TranscriptNext]_vars
StateSpec == Init /\ [][StateNext]_vars
TmuxSpec == Init /\ [][TmuxNext]_vars
QueryPathsSpec == Init /\ [][QueryPathsNext]_vars
UpdateSpec == Init /\ [][UpdateNext]_vars
NotifySpec == Init /\ [][NotifyNext]_vars
DaemonSpec ==
    Init /\ [][DaemonNext]_vars
         /\ \A h \in RelayedTasks :
               /\ WF_vars(\E refused \in BOOLEAN : HandleRelayMessage(h, refused))
               /\ WF_vars(\E o \in QueryOutcomes : LocalQueryEnds(h, o))

=============================================================================
